---- MODULE Spec2Model ----
(***************************************************************************)
(* Model of app/services/pdf_parser.py: parse_pdf and the figure cropping  *)
(* and key-page selection it drives.                                       *)
(*                                                                         *)
(* Representation.                                                         *)
(*  - A rectangle (fitz.Rect) is a record [x0, y0, x1, y1] of integer      *)
(*    points.                                                              *)
(*  - The plain text of a page (page.get_text("text")) is a sequence of    *)
(*    segments [k, n]: n characters of kind k, where k is "word" (letters  *)
(*    that form no keyword), "space", "newline", "math" (characters of     *)
(*    MATH_SYMBOLS) or "keyword" (the word "figure", n = 6, delimited by   *)
(*    its neighbours).  A segment sequence stands for the string obtained  *)
(*    by writing its segments one after the other.                         *)
(*  - The text of a text block span is a sequence of one-character         *)
(*    strings.                                                             *)
(*  - A float is an exact fraction [num, den] with den > 0.                *)
(*  - A rendered image is the record of what was rendered: page, clip,     *)
(*    dpi.                                                                 *)
(***************************************************************************)
EXTENDS Integers, Sequences, FiniteSets, TLC

VARIABLES
    doc,            \* the PDF handed to parse_pdf: [pages: sequence of page descriptions]
    pc,             \* position in parse_pdf
    tmp_exists,     \* the temporary file written by write_temp_pdf is on disk
    doc_open,       \* the fitz document handle is open
    pages,          \* parse_pdf's local list of PageData
    full_text,      \* parse_pdf's local full_text
    score_keys,     \* the keys sorted() computed with _score_page, one per page
    key_pages_set,  \* parse_pdf's local key_pages_set
    key_page_list,  \* parse_pdf's local key_page_list
    exc,            \* the exception in flight: [type, origin, wrapped]
    result,         \* what parse_pdf handed to its caller
    page_num,       \* the page loop's page_num (0 before the first iteration)
    text_blocks,    \* locals of the latest _extract_cropped_figures call
    drawing_rects,
    raster_rects,
    captions,
    crop_trace,     \* the iterations of its caption loop that ran
    runs,           \* the calls of parse_pdf on doc so far, this one included
    last_parsed,    \* the ParsedPDF the latest successful earlier call returned
    use_vision,     \* _run_vision's arguments: use_vision,
    settings,       \*   settings: [gemini_api_key],
    parsed,         \*   parsed: [key_pages, all_cropped_figures]
    vpc,            \* position in _run_vision ("idle": not called)
    page_index,     \* the key pages the running backend's loop has been through
    called,         \* the backends _run_vision has called so far, in order
    analysis,       \* the running backend's local result, a VisionAnalysis
    requests,       \* the requests made to the backends so far: [backend, page, outcome]
    vision,         \* what _run_vision returned
    lpc,            \* position in chat_completion ("idle": not called)
    attempt,        \* chat_completion's attempt (0 before the first iteration)
    last_exc,       \* chat_completion's last_exc
    events,         \* the requests made and the sleeps taken by chat_completion, in order
    llm_result,     \* what chat_completion returned or raised
    cpc,            \* position in chunk_text ("idle": not called)
    full,           \* chunk_text's argument text: [len, para, sent], the length of the text
                    \*   and the offsets at which "\n\n" and ". " occur in it
    start,          \* chunk_text's start
    idx,            \* chunk_text's idx
    chunks,         \* chunk_text's chunks, and what it returned once cpc is "returned"
    epc,            \* position in enrich_sections_with_marker ("idle": not called)
    sections,       \* its argument sections: [equations]
    marker_equations, \* its argument marker_equations
    enriched        \* what it returned

vars == << doc, pc, tmp_exists, doc_open, pages, full_text, score_keys,
           key_pages_set, key_page_list, exc, result,
           page_num, text_blocks, drawing_rects, raster_rects, captions,
           crop_trace, runs, last_parsed,
           use_vision, settings, parsed, vpc, page_index, called, analysis,
           requests, vision,
           lpc, attempt, last_exc, events, llm_result,
           cpc, full, start, idx, chunks,
           epc, sections, marker_equations, enriched >>

(***************************************************************************)
(* Constants of pdf_parser.py                                              *)
(***************************************************************************)
MAX_VISION_PAGES == 8
FULL_PAGE_DPI == 150
CROP_DPI == 200
CROP_PAD == 8
MIN_DRAWING_W == 10
MIN_DRAWING_H == 10
MIN_TEXT_CHARS == 100

Min(a, b) == IF a < b THEN a ELSE b
Max(a, b) == IF a > b THEN a ELSE b

(***************************************************************************)
(* fitz.Rect                                                               *)
(***************************************************************************)
Rect(a, b, c, d) == [x0 |-> a, y0 |-> b, x1 |-> c, y1 |-> d]
RectWidth(r) == Max(0, r.x1 - r.x0)
RectHeight(r) == Max(0, r.y1 - r.y0)
RectIsEmpty(r) == r.x0 >= r.x1 \/ r.y0 >= r.y1

\* r & s
RectAnd(r, s) ==
    IF RectIsEmpty(s) THEN s
    ELSE IF RectIsEmpty(r) THEN r
    ELSE Rect(Max(r.x0, s.x0), Max(r.y0, s.y0), Min(r.x1, s.x1), Min(r.y1, s.y1))

\* r | s
RectOr(r, s) ==
    IF RectIsEmpty(s) THEN r
    ELSE IF RectIsEmpty(r) THEN s
    ELSE Rect(Min(r.x0, s.x0), Min(r.y0, s.y0), Max(r.x1, s.x1), Max(r.y1, s.y1))

(***************************************************************************)
(* Page text as segments                                                   *)
(***************************************************************************)
Seg(kind, count) == [k |-> kind, n |-> count]
IsSpaceSeg(s) == s.k \in {"space", "newline"}

RECURSIVE TextLen(_)
TextLen(t) == IF t = << >> THEN 0 ELSE Head(t).n + TextLen(Tail(t))

RECURSIVE MathCount(_)
MathCount(t) ==
    IF t = << >> THEN 0
    ELSE (IF Head(t).k = "math" THEN Head(t).n ELSE 0) + MathCount(Tail(t))

\* the kind of the i-th character of t (1-based), "none" past its end
RECURSIVE CharAt(_, _)
CharAt(t, i) ==
    IF t = << >> \/ i < 1 THEN "none"
    ELSE IF i <= Head(t).n THEN Head(t).k
    ELSE CharAt(Tail(t), i - Head(t).n)

RECURSIVE LStrip(_)
LStrip(t) ==
    IF t = << >> THEN << >>
    ELSE IF IsSpaceSeg(Head(t)) THEN LStrip(Tail(t)) ELSE t

RECURSIVE RStrip(_)
RStrip(t) ==
    IF t = << >> THEN << >>
    ELSE IF IsSpaceSeg(t[Len(t)]) THEN RStrip(SubSeq(t, 1, Len(t) - 1)) ELSE t

Strip_LeadingOnly(t) == LStrip(t)

\* str.strip()
Strip(t) == RStrip(LStrip(t))

\* sep.join(ts)
RECURSIVE JoinTexts(_, _)
JoinTexts(ts, sep) ==
    IF ts = << >> THEN << >>
    ELSE IF Len(ts) = 1 THEN ts[1]
    ELSE ts[1] \o sep \o JoinTexts(Tail(ts), sep)

\* re.search(r"\b(figure|fig\.|table|equation|eq\.)\b", text, re.I)
HasFigureKeyword(t) == \E i \in 1..Len(t) : t[i].k = "keyword"

(***************************************************************************)
(* Block text as characters                                                *)
(***************************************************************************)
IsSpaceChar(c) == c \in {" ", "\n", "\t"}
IsDigit(c) == c \in {"0", "1", "2", "3", "4", "5", "6", "7", "8", "9"}
Lower(c) ==
    CASE c = "F" -> "f" [] c = "I" -> "i" [] c = "G" -> "g"
      [] c = "U" -> "u" [] c = "R" -> "r" [] c = "E" -> "e"
      [] OTHER -> c

RECURSIVE CharLStrip(_)
CharLStrip(s) ==
    IF s = << >> THEN << >>
    ELSE IF IsSpaceChar(Head(s)) THEN CharLStrip(Tail(s)) ELSE s

RECURSIVE CharRStrip(_)
CharRStrip(s) ==
    IF s = << >> THEN << >>
    ELSE IF IsSpaceChar(s[Len(s)]) THEN CharRStrip(SubSeq(s, 1, Len(s) - 1)) ELSE s

CharStrip(s) == CharRStrip(CharLStrip(s))

\* " ".join(spans)
RECURSIVE JoinSpans(_)
JoinSpans(spans) ==
    IF spans = << >> THEN << >>
    ELSE IF Len(spans) = 1 THEN spans[1]
    ELSE spans[1] \o << " " >> \o JoinSpans(Tail(spans))

\* s starts, ignoring case, with the characters of w
StartsWithI(s, w) ==
    /\ Len(s) >= Len(w)
    /\ \A i \in 1..Len(w) : Lower(s[i]) = w[i]

\* \s*\d matches at the start of s
SpacesThenDigit(s) ==
    LET r == CharLStrip(s) IN r # << >> /\ IsDigit(Head(r))

Drop(s, n) == SubSeq(s, n + 1, Len(s))

\* FIGURE_CAPTION_RE.match(t): ^\s*(figure|fig\.?)\s*\d, ignoring case
FIGURE_CAPTION_RE(t) ==
    LET s == CharLStrip(t) IN
    \/ StartsWithI(s, << "f", "i", "g", "u", "r", "e" >>) /\ SpacesThenDigit(Drop(s, 6))
    \/ StartsWithI(s, << "f", "i", "g", "." >>) /\ SpacesThenDigit(Drop(s, 4))
    \/ StartsWithI(s, << "f", "i", "g" >>) /\ SpacesThenDigit(Drop(s, 3))

(***************************************************************************)
(* Optional values (None)                                                  *)
(***************************************************************************)
None == [none |-> TRUE]
Some(v) == [none |-> FALSE, v |-> v]

(***************************************************************************)
(* Render helpers                                                          *)
(***************************************************************************)
NoPng == [page |-> 0, clip |-> Rect(0, 0, 0, 0), dpi |-> 0]

\* the image get_pixmap produces is determined by the page, the clip and the dpi
_render_rect(page_number, rect, dpi) ==
    [page |-> page_number, clip |-> rect, dpi |-> dpi]

_render_full_page_Nothing(page_number, page) == NoPng

_render_full_page(page_number, page) ==
    [page |-> page_number, clip |-> page.rect, dpi |-> FULL_PAGE_DPI]

(***************************************************************************)
(* Core figure extraction                                                  *)
(***************************************************************************)
RECURSIVE _collect_text_blocks_from(_)
_collect_text_blocks_from(blocks) ==
    IF blocks = << >> THEN << >>
    ELSE LET blk == Head(blocks)
             text == CharStrip(JoinSpans(blk.spans))
             rest == _collect_text_blocks_from(Tail(blocks))
         IN IF blk.type # 0 THEN rest
            ELSE IF text # << >> THEN << [rect |-> blk.bbox, text |-> text] >> \o rest
            ELSE rest

_collect_text_blocks(page) == _collect_text_blocks_from(page.blocks)

BigEnough(r) == RectWidth(r) > MIN_DRAWING_W /\ RectHeight(r) > MIN_DRAWING_H

RECURSIVE _collect_raster_blocks_from(_)
_collect_raster_blocks_from(blocks) ==
    IF blocks = << >> THEN << >>
    ELSE LET blk == Head(blocks)
             rest == _collect_raster_blocks_from(Tail(blocks))
         IN IF blk.type = 1 /\ BigEnough(blk.bbox) THEN << blk.bbox >> \o rest
            ELSE rest

_collect_raster_blocks(page) == _collect_raster_blocks_from(page.blocks)

\* The loop of _collect_drawing_rects from drawing i on, rects collected so far.
\* page.drawFail says whether enumerating the drawings raises, and where:
\* at = 0 in page.get_drawings() itself, at = k while drawing k is handled.
\* The except clause passes, and the rects collected so far are returned.
RECURSIVE _collect_drawing_loop(_, _, _)
_collect_drawing_loop(page, i, rects) ==
    IF page.drawFail.fails /\ page.drawFail.at = i THEN rects
    ELSE IF i > Len(page.drawings) THEN rects
    ELSE LET r == page.drawings[i] IN
         _collect_drawing_loop(page, i + 1,
             IF BigEnough(r) THEN Append(rects, r) ELSE rects)

_collect_drawing_rects_EmptyOnFailure(page) ==
    IF page.drawFail.fails THEN << >>
    ELSE _collect_drawing_loop(page, 1, << >>)

_collect_drawing_rects(page) ==
    IF page.drawFail.fails /\ page.drawFail.at = 0 THEN << >>
    ELSE _collect_drawing_loop(page, 1, << >>)

RECURSIVE _union_from(_, _)
_union_from(acc, rects) ==
    IF rects = << >> THEN acc
    ELSE _union_from(RectOr(acc, Head(rects)), Tail(rects))

_union_rects(rects) ==
    IF rects = << >> THEN None
    ELSE Some(_union_from(rects[1], Tail(rects)))

_figure_is_above_caption_AtLeast(caption_rect, page_height) ==
    10 * caption_rect.y0 >= 3 * page_height

\* caption_rect.y0 > page_height * 0.30.  For coordinates of the size of a page
\* the product in floating point equals 3/10 of the height whenever that is
\* representable, so the comparison is the exact one.
_figure_is_above_caption(caption_rect, page_height) ==
    10 * caption_rect.y0 > 3 * page_height

InZone(r, search_zone) ==
    LET inter == RectAnd(r, search_zone) IN
    /\ ~RectIsEmpty(inter)
    /\ RectWidth(inter) > MIN_DRAWING_W
    /\ RectHeight(inter) > MIN_DRAWING_H

\* lines 203-212: the zone searched for the figure
SearchZone(caption_rect, page_rect, fig_above) ==
    LET x0 == page_rect.x0
        x1 == page_rect.x1
    IN IF fig_above
       THEN Rect(x0, page_rect.y0, x1, caption_rect.y0)
       ELSE Rect(x0, caption_rect.y1, x1, page_rect.y1)

ZoneRects_Unfiltered(rects, search_zone) == rects

\* lines 215-219: the rects kept are the rects themselves, not their intersections
ZoneRects(rects, search_zone) == SelectSeq(rects, LAMBDA r : InZone(r, search_zone))

FallbackRegion_NoSideMargin(caption_rect, fallback_h) ==
    Rect(caption_rect.x0, caption_rect.y0 - fallback_h, caption_rect.x1, caption_rect.y1)

\* lines 231-238
FallbackRegion(caption_rect, fallback_h) ==
    Rect(caption_rect.x0 - 20, caption_rect.y0 - fallback_h,
         caption_rect.x1 + 20, caption_rect.y1)

\* _crop_for_caption with its locals: fig_above, search_zone, zone_rects, the
\* return statement reached, via (line 226, 233 or 240), and the value returned
_crop_locals(caption_rect, page, drawings, rasters) ==
    LET page_rect == page.rect
        fig_above == _figure_is_above_caption(caption_rect, RectHeight(page_rect))
        search_zone == SearchZone(caption_rect, page_rect, fig_above)
        zone_rects == ZoneRects(drawings \o rasters, search_zone)
        combined == _union_rects(zone_rects)
        fallback_h == IF fig_above THEN Min(200, caption_rect.y0 - page_rect.y0) ELSE 200
        via == IF /\ zone_rects # << >>
                  /\ ~combined.none
                  /\ RectWidth(combined.v) > 20
                  /\ RectHeight(combined.v) > 20
               THEN "union"
               ELSE IF fig_above /\ fallback_h > 40 THEN "fallback" ELSE "none"
    IN [fig_above |-> fig_above,
        search_zone |-> search_zone,
        zone_rects |-> zone_rects,
        via |-> via,
        ret |-> CASE via = "union" -> Some(RectOr(combined.v, caption_rect))
                  [] via = "fallback" -> Some(FallbackRegion(caption_rect, fallback_h))
                  [] OTHER -> None]

_crop_for_caption(caption_rect, page, drawings, rasters) ==
    _crop_locals(caption_rect, page, drawings, rasters).ret

ClampToPage_PadOnly(crop_rect, page_rect) ==
    Rect(crop_rect.x0 - CROP_PAD, crop_rect.y0 - CROP_PAD,
         crop_rect.x1 + CROP_PAD, crop_rect.y1 + CROP_PAD)

\* the crop rectangle padded by CROP_PAD and clamped to the page
ClampToPage(crop_rect, page_rect) ==
    Rect(Max(crop_rect.x0 - CROP_PAD, page_rect.x0),
         Max(crop_rect.y0 - CROP_PAD, page_rect.y0),
         Min(crop_rect.x1 + CROP_PAD, page_rect.x1),
         Min(crop_rect.y1 + CROP_PAD, page_rect.y1))

TooSmall_Under10(crop_rect) == RectWidth(crop_rect) < 10 \/ RectHeight(crop_rect) < 10

\* line 294
TooSmall(crop_rect) == RectWidth(crop_rect) < 20 \/ RectHeight(crop_rect) < 20

CroppedFigure_ZeroBased(pn, cap, png) ==
    [page_number |-> pn - 1, caption |-> cap, png_b64 |-> png]

CroppedFigure(pn, cap, png) == [page_number |-> pn, caption |-> cap, png_b64 |-> png]

\* what one iteration of the caption loop computed: the caption, the locals of
\* _crop_for_caption, crop_rect after line 292 (None when line 284 continued)
\* and whether line 297 was reached
Iteration(cap, locals, crop_rect, rendered) ==
    [cap_rect |-> cap.rect, cap_text |-> cap.text,
     fig_above |-> locals.fig_above, search_zone |-> locals.search_zone,
     zone_rects |-> locals.zone_rects, via |-> locals.via, region |-> locals.ret,
     crop_rect |-> crop_rect, rendered |-> rendered]

\* The caption loop of _extract_cropped_figures from caption i on.  failCap is the
\* caption whose crop get_pixmap fails to render (0: none).  Nothing in the loop
\* catches, so the exception leaves _extract_cropped_figures.  trace lists the
\* iterations that ran.
RECURSIVE _caption_loop(_, _, _, _, _, _, _)
_caption_loop(page, page_number, caps, drawings, rasters, failCap, i) ==
    IF i > Len(caps) THEN [raised |-> FALSE, figures |-> << >>, trace |-> << >>]
    ELSE LET cap == caps[i]
             locals == _crop_locals(cap.rect, page, drawings, rasters)
             crop == locals.ret
             rest == _caption_loop(page, page_number, caps, drawings, rasters, failCap, i + 1)
         IN IF crop.none
            THEN [rest EXCEPT !.trace = << Iteration(cap, locals, None, FALSE) >> \o @]
            ELSE LET crop_rect == ClampToPage(crop.v, page.rect) IN
                 IF TooSmall(crop_rect)
                 THEN [rest EXCEPT !.trace =
                             << Iteration(cap, locals, Some(crop_rect), FALSE) >> \o @]
                 ELSE IF failCap = i
                 THEN [raised |-> TRUE, figures |-> << >>,
                       trace |-> << Iteration(cap, locals, Some(crop_rect), TRUE) >>]
                 ELSE [raised |-> rest.raised,
                       figures |-> IF rest.raised THEN << >>
                                   ELSE << CroppedFigure(page_number, CharStrip(cap.text),
                                              _render_rect(page_number, crop_rect, CROP_DPI)) >>
                                        \o rest.figures,
                       trace |-> << Iteration(cap, locals, Some(crop_rect), TRUE) >>
                                 \o rest.trace]

FindCaptions(blocks) == SelectSeq(blocks, LAMBDA b : FIGURE_CAPTION_RE(b.text))

_extract_cropped_figures(page, page_number, failCap) ==
    LET blocks == _collect_text_blocks(page)
        drawings == _collect_drawing_rects(page)
        rasters == _collect_raster_blocks(page)
        caps == FindCaptions(blocks)
    IN IF caps = << >> THEN [raised |-> FALSE, figures |-> << >>, trace |-> << >>]
       ELSE _caption_loop(page, page_number, caps, drawings, rasters, failCap, 1)

(***************************************************************************)
(* Scoring for key page selection                                          *)
(***************************************************************************)
Frac(a, b) == [num |-> a, den |-> b]
FracGT(a, b) == a.num * b.den > b.num * a.den
FracEQ(a, b) == a.num * b.den = b.num * a.den

_math_density(text) ==
    IF text = << >> THEN Frac(0, 1)
    ELSE Frac(MathCount(text), TextLen(text))

_score_page_NoMin(pd) ==
    LET s1 == IF pd.has_figure_keyword THEN 4 ELSE 0
        s2 == IF pd.cropped_figures # << >> THEN s1 + 3 * Len(pd.cropped_figures) ELSE s1
        s3 == IF pd.image_count > 0 THEN s2 + 2 * pd.image_count ELSE s2
        d == _math_density(pd.text)
    IN Frac(s3 * d.den + d.num * 20, d.den)

_score_page(pd) ==
    LET s1 == IF pd.has_figure_keyword THEN 4 ELSE 0
        s2 == IF pd.cropped_figures # << >> THEN s1 + 3 * Len(pd.cropped_figures) ELSE s1
        s3 == IF pd.image_count > 0 THEN s2 + 2 * Min(pd.image_count, 3) ELSE s2
        d == _math_density(pd.text)
    IN Frac(s3 * d.den + d.num * 20, d.den)

\* sorted(seq, key=_score_page, reverse=True): stable, highest key first
RECURSIVE InsertByScore(_, _)
InsertByScore(sorted, pd) ==
    IF sorted = << >> THEN << pd >>
    ELSE IF FracGT(_score_page(pd), _score_page(Head(sorted)))
         THEN << pd >> \o sorted
         ELSE << Head(sorted) >> \o InsertByScore(Tail(sorted), pd)

SortedByScore_Unsorted(seq) == seq

RECURSIVE SortedByScore(_)
SortedByScore(seq) ==
    IF seq = << >> THEN << >>
    ELSE InsertByScore(SortedByScore(SubSeq(seq, 1, Len(seq) - 1)), seq[Len(seq)])

\* sorted(seq, key=lambda p: p.page_number): stable, lowest page number first
RECURSIVE InsertByPageNumber(_, _)
InsertByPageNumber(sorted, pd) ==
    IF sorted = << >> THEN << pd >>
    ELSE IF pd.page_number < Head(sorted).page_number
         THEN << pd >> \o sorted
         ELSE << Head(sorted) >> \o InsertByPageNumber(Tail(sorted), pd)

RECURSIVE SortedByPageNumber(_)
SortedByPageNumber(seq) ==
    IF seq = << >> THEN << >>
    ELSE InsertByPageNumber(SortedByPageNumber(SubSeq(seq, 1, Len(seq) - 1)), seq[Len(seq)])

TopPages_NoCap(pgs) == SortedByScore(pgs)

\* the page numbers parse_pdf puts into key_pages_set (lines 371-376)
TopPages(pgs) == SubSeq(SortedByScore(pgs), 1, Min(MAX_VISION_PAGES, Len(pgs)))

SelectKeyPageNumbers_NoLast(pgs) ==
    LET top == TopPages(pgs) IN
    {1} \cup {top[j].page_number : j \in {j \in 1..Len(top) : FracGT(_score_page(top[j]), Frac(1, 2))}}

SelectKeyPageNumbers_AtLeastHalf(pgs) ==
    LET top == TopPages(pgs) IN
    {1} \cup (IF Len(pgs) > 1 THEN {Len(pgs)} ELSE {})
        \cup {top[j].page_number : j \in {j \in 1..Len(top) : ~FracGT(Frac(1, 2), _score_page(top[j]))}}

SelectKeyPageNumbers(pgs) ==
    LET top == TopPages(pgs) IN
    {1} \cup (IF Len(pgs) > 1 THEN {Len(pgs)} ELSE {})
        \cup {top[j].page_number : j \in {j \in 1..Len(top) : FracGT(_score_page(top[j]), Frac(1, 2))}}

(***************************************************************************)
(* Sample inputs: page texts, text blocks, drawings, pages                 *)
(***************************************************************************)
PageRect == Rect(0, 0, 612, 792)

TextEmpty == << >>
Text99 == << Seg("word", 99) >>
Text100 == << Seg("word", 100), Seg("newline", 1) >>
Text49 == << Seg("word", 49) >>
TextPadded49 == << Seg("space", 2), Seg("word", 49), Seg("newline", 1) >>
TextKeyword == << Seg("keyword", 6), Seg("space", 1), Seg("word", 120), Seg("newline", 1) >>
TextHalf == << Seg("word", 39), Seg("math", 1) >>            \* density 1/40: score 0.5
TextJust == << Seg("word", 1949), Seg("math", 51) >>         \* density 51/2000: score 0.51
TextMath == << Seg("word", 90), Seg("space", 1), Seg("math", 9), Seg("newline", 1) >>

CapFigure1 == << "F", "i", "g", "u", "r", "e", " ", "1", ":", " ", "T", "e", "s", "t" >>
CapFig2 == << "f", "i", "g", ".", " ", "2" >>
BodyText == << "F", "i", "g", "u", "r", "e", "s", " ", "a", "r", "e" >>

TextBlock(bbox, spans) == [type |-> 0, bbox |-> bbox, spans |-> spans]
ImageBlock(bbox) == [type |-> 1, bbox |-> bbox, spans |-> << >>]

NoFail == [fails |-> FALSE, at |-> 0]
FailAt(k) == [fails |-> TRUE, at |-> k]

Page(text, images, blocks, drawings, drawFail) ==
    [text |-> text, images |-> images, rect |-> PageRect,
     blocks |-> blocks, drawings |-> drawings, drawFail |-> drawFail]

Plain(text) == Page(text, 0, << TextBlock(Rect(72, 72, 540, 700), << BodyText >>) >>, << >>, NoFail)

\* a caption low on the page under two drawings and a thin rule
FigureBlocks == << TextBlock(Rect(100, 400, 300, 420), << CapFigure1, << " " >> >>) >>
FigureDrawings == << Rect(100, 290, 200, 390), Rect(300, 200, 500, 390), Rect(50, 500, 560, 501) >>
FigurePage(drawFail) == Page(TextKeyword, 0, FigureBlocks, FigureDrawings, drawFail)

\* a caption near the top with nothing below it, a caption lower down under a
\* drawing, a caption off the right edge of the page, an empty block
TwoCaptionBlocks ==
    << TextBlock(Rect(100, 100, 300, 120), << CapFig2 >>),
       TextBlock(Rect(100, 300, 300, 320), << CapFigure1 >>),
       TextBlock(Rect(640, 400, 700, 420), << CapFig2 >>),
       TextBlock(Rect(72, 600, 540, 700), << << " " >>, << >> >>) >>
TwoCaptionPage == Page(TextKeyword, 1, TwoCaptionBlocks, << Rect(100, 30, 200, 90) >>, NoFail)

RasterPage == Page(Text100, 1, << ImageBlock(Rect(100, 100, 300, 300)) >>, << >>, NoFail)
ManyImagesPage == Page(Text49, 5, << ImageBlock(Rect(100, 100, 105, 300)) >>, << >>, NoFail)

RichPages ==
    { Plain(TextEmpty), Plain(Text99), Plain(Text100), Plain(Text49),
      Plain(TextPadded49), Plain(TextKeyword), Plain(TextHalf), Plain(TextMath),
      RasterPage, ManyImagesPage, TwoCaptionPage,
      FigurePage(NoFail), FigurePage(FailAt(0)), FigurePage(FailAt(2)), FigurePage(FailAt(3)) }

\* bounds
MaxPages == 2
MaxSelPages == 11
MaxOdd == 2

\* a document of n pages that are all base but for the pages odd gives
SelDoc(n, base, odd) ==
    [pages |-> [i \in 1..n |-> IF i \in DOMAIN odd THEN odd[i] ELSE base]]
SelPages == { Plain(TextHalf), Plain(TextJust), Plain(TextKeyword) }
FewOf(n) == { S \in SUBSET (1..n) : Cardinality(S) <= MaxOdd }

(***************************************************************************)
(* parse_pdf                                                               *)
(***************************************************************************)
NoExc == [type |-> "none", origin |-> "none", wrapped |-> FALSE]
Raise(type, origin) == [type |-> type, origin |-> origin, wrapped |-> FALSE]

NoResult == [kind |-> "none", origin |-> "none", pages |-> << >>, full_text |-> << >>, key_pages |-> << >>]
ErrorResult(kind, origin) ==
    [kind |-> kind, origin |-> origin, pages |-> << >>, full_text |-> << >>, key_pages |-> << >>]
ParsedPDF(pgs, text, keys) ==
    [kind |-> "ParsedPDF", origin |-> "none", pages |-> pgs, full_text |-> text, key_pages |-> keys]

PageData(page_number, page, cropped) ==
    [page_number |-> page_number,
     text |-> page.text,
     has_figure_keyword |-> HasFigureKeyword(page.text),
     math_density |-> _math_density(page.text),
     image_count |-> page.images,
     is_key_page |-> FALSE,
     png_b64 |-> NoPng,
     cropped_figures |-> cropped]

ParseInit(d) ==
    /\ doc = d
    /\ pc = "write_temp"
    /\ tmp_exists = FALSE
    /\ doc_open = FALSE
    /\ pages = << >>
    /\ full_text = << >>
    /\ score_keys = << >>
    /\ key_pages_set = {}
    /\ key_page_list = << >>
    /\ exc = NoExc
    /\ result = NoResult
    /\ page_num = 0
    /\ text_blocks = << >>
    /\ drawing_rects = << >>
    /\ raster_rects = << >>
    /\ captions = << >>
    /\ crop_trace = << >>
    /\ runs = 1
    /\ last_parsed = NoResult

\* VisionAnalysis(): no figures, no equations, and page_summaries, a dict, as
\* the set of its items [page_number, summary]
VisionAnalysis == [figures |-> << >>, equations |-> << >>, page_summaries |-> {}]

\* _run_vision is not called
VisionIdle ==
    /\ use_vision = FALSE
    /\ settings = [gemini_api_key |-> << >>]
    /\ parsed = [key_pages |-> << >>, all_cropped_figures |-> << >>]
    /\ vpc = "idle"
    /\ page_index = 0
    /\ called = << >>
    /\ analysis = VisionAnalysis
    /\ requests = << >>
    /\ vision = None

\* chat_completion, chunk_text and enrich_sections_with_marker not called
LLMIdle ==
    /\ lpc = "idle"
    /\ attempt = 0
    /\ last_exc = None
    /\ events = << >>
    /\ llm_result = None
ChunkIdle ==
    /\ cpc = "idle"
    /\ full = [len |-> 0, para |-> {}, sent |-> {}]
    /\ start = 0
    /\ idx = 0
    /\ chunks = << >>
EnrichIdle ==
    /\ epc = "idle"
    /\ sections = [equations |-> << >>]
    /\ marker_equations = << >>
    /\ enriched = None

InitWith(d) == ParseInit(d) /\ VisionIdle /\ LLMIdle /\ ChunkIdle /\ EnrichIdle

(***************************************************************************)
(* Sample inputs for region inference: one caption on a page, among        *)
(* drawings and an embedded image                                          *)
(***************************************************************************)
\* bound: the number of vector drawings on the page
MaxDrawings == 2

\* a page whose 30% line is y = 150, and one so short (30% line y = 36) that a
\* caption below that line can have 40 points or less above it
CropPageRects == { Rect(0, 0, 400, 500), Rect(0, 0, 300, 120) }

\* caption top edges: at 5% of the height, on the 30% line, just below it, and
\* with 37, 40, 41 and more than 200 points above
CaptionTops(page_rect) ==
    IF page_rect = Rect(0, 0, 400, 500) THEN { 25, 150, 151, 260, 470 }
    ELSE { 6, 36, 37, 40, 41, 100 }

\* caption left and right edges: inside the page, across its left edge, and past
\* its right edge by so much that the clamped fallback is 20 or 18 points wide
CaptionSpans(page_rect) ==
    { << 100, 200 >>, << -50, 50 >>,
      << page_rect.x1 + 8, page_rect.x1 + 60 >>,
      << page_rect.x1 + 10, page_rect.x1 + 60 >> }

\* an ordinary drawing; a narrow tall one; one across the left page edge; one
\* that a zone ending at y = 260 cuts to 8 points; a 15 x 15 one
CropDrawings ==
    { Rect(50, 160, 150, 250), Rect(200, 100, 215, 400), Rect(-30, 200, 60, 300),
      Rect(100, 252, 300, 290), Rect(10, 50, 25, 65) }

CropRaster == Rect(120, 170, 380, 240)

\* a second caption, 40 points above the page bottom
LowCaption(page_rect) ==
    TextBlock(Rect(220, page_rect.y1 - 40, 320, page_rect.y1 - 30), << CapFig2 >>)

\* the text blocks of the page: one caption, a caption followed by the low
\* caption, or body text where the caption would be
CropBlocks(page_rect, caption_rect, layout) ==
    CASE layout = "one" -> << TextBlock(caption_rect, << CapFigure1 >>) >>
      [] layout = "two" -> << TextBlock(caption_rect, << CapFigure1 >>), LowCaption(page_rect) >>
      [] layout = "none" -> << TextBlock(caption_rect, << BodyText >>) >>

CropPage(page_rect, blocks, drawings, rasters) ==
    [ Page(TextKeyword, Len(rasters),
           blocks \o [i \in 1..Len(rasters) |-> ImageBlock(rasters[i])],
           drawings, NoFail)
      EXCEPT !.rect = page_rect ]

\* the empty document, and the documents of one page with these text blocks,
\* up to MaxDrawings drawings and at most one embedded image; the page with two
\* captions also as the second page, after a page of text
InitCrop ==
    \/ InitWith([pages |-> << >>])
    \/ \E page_rect \in CropPageRects :
       \E top \in CaptionTops(page_rect) : \E span \in CaptionSpans(page_rect) :
       \E layout \in { "one", "two", "none" } :
       \E n \in 0..MaxDrawings : \E ds \in [1..n -> CropDrawings] :
       \E rs \in { << >>, << CropRaster >> } :
       \E lead \in { << >> } \cup (IF layout = "two" THEN { << Plain(Text100) >> } ELSE {}) :
          InitWith([pages |-> lead \o
              << CropPage(page_rect, CropBlocks(page_rect, Rect(span[1], top, span[2], top + 10), layout),
                          ds, rs) >>])

\* bound: the calls of parse_pdf on one document
MaxRuns == 2

\* the documents of one page of RichPages, one of two pages with figures, and
\* one of three pages whose middle page scores 0.5
InitTwice ==
    \/ \E q \in RichPages : InitWith([pages |-> << q >>])
    \/ InitWith([pages |-> << FigurePage(NoFail), TwoCaptionPage >>])
    \/ InitWith([pages |-> << FigurePage(NoFail), Plain(TextHalf), TwoCaptionPage >>])

\* documents of up to MaxPages pages, each any of RichPages
Init ==
    \E n \in 0..MaxPages : \E q \in [1..n -> RichPages] : InitWith([pages |-> q])

\* documents of up to MaxSelPages pages of SelPages, all alike but for at most
\* MaxOdd of them
InitSel ==
    \E n \in 0..MaxSelPages : \E base \in SelPages :
        \E S \in FewOf(n) : \E odd \in [S -> SelPages] : InitWith(SelDoc(n, base, odd))

extract_locals ==
    << page_num, text_blocks, drawing_rects, raster_rects, captions, crop_trace >>
select_locals == << score_keys, key_pages_set, key_page_list >>
run_state == << runs, last_parsed >>
vision_state ==
    << use_vision, settings, parsed, vpc, page_index, called, analysis,
           requests, vision >>
llm_state == << lpc, attempt, last_exc, events, llm_result >>
chunk_state == << cpc, full, start, idx, chunks >>
enrich_state == << epc, sections, marker_equations, enriched >>
parse_state ==
    << doc, pc, tmp_exists, doc_open, pages, full_text, exc, result,
       extract_locals, select_locals, run_state >>

\* line 338: write_temp_pdf, outside the try
WriteTemp ==
    /\ pc = "write_temp"
    /\ \E outcome \in {"ok", "mkstemp_fails", "write_fails"} :
         /\ tmp_exists' = (outcome # "mkstemp_fails")
         /\ IF outcome = "ok"
            THEN pc' = "open" /\ result' = result
            ELSE pc' = "exit" /\ result' = ErrorResult("OSError", "write_temp")
    /\ UNCHANGED << doc, run_state, vision_state, llm_state, chunk_state, enrich_state,
                     doc_open, pages, full_text, exc, extract_locals, select_locals >>

crop_locals == << text_blocks, drawing_rects, raster_rects, captions, crop_trace >>

Open_KeepsPages ==
    /\ pc = "open"
    /\ \E ok \in BOOLEAN :
         IF ok THEN doc_open' = TRUE /\ pc' = "loop" /\ exc' = exc /\ page_num' = 0
         ELSE /\ doc_open' = FALSE /\ pc' = "except" /\ page_num' = page_num
              /\ exc' = Raise("Exception", "open")
    /\ UNCHANGED << doc, run_state, vision_state, llm_state, chunk_state, enrich_state,
                     pages, tmp_exists, full_text, result,
                    crop_locals, select_locals >>

\* lines 340-343: fitz.open, the empty list of pages, the start of enumerate(doc)
Open ==
    /\ pc = "open"
    /\ \E ok \in BOOLEAN :
         IF ok THEN doc_open' = TRUE /\ pc' = "loop" /\ exc' = exc /\ page_num' = 0
         ELSE /\ doc_open' = FALSE /\ pc' = "except" /\ page_num' = page_num
              /\ exc' = Raise("Exception", "open")
    /\ pages' = << >>
    /\ UNCHANGED << doc, run_state, vision_state, llm_state, chunk_state, enrich_state,
                     tmp_exists, full_text, result,
                    crop_locals, select_locals >>

\* lines 343-359: one iteration of the page loop
ProcessPage ==
    /\ pc = "loop"
    /\ page_num < Len(doc.pages)
    /\ LET i == page_num + 1
           fitz_page == doc.pages[i]
       IN /\ page_num' = i
          /\ text_blocks' = _collect_text_blocks(fitz_page)
          /\ drawing_rects' = _collect_drawing_rects(fitz_page)
          /\ raster_rects' = _collect_raster_blocks(fitz_page)
          /\ captions' = FindCaptions(_collect_text_blocks(fitz_page))
          /\ \E failCap \in 0..Len(FindCaptions(_collect_text_blocks(fitz_page))) :
               LET cropped == _extract_cropped_figures(fitz_page, i, failCap) IN
               /\ crop_trace' = cropped.trace
               /\ IF cropped.raised
                  THEN /\ exc' = Raise("Exception", "crop")
                       /\ pc' = "except"
                       /\ pages' = pages
                  ELSE /\ pages' = Append(pages, PageData(i, fitz_page, cropped.figures))
                       /\ pc' = "loop"
                       /\ exc' = exc
    /\ UNCHANGED << doc, run_state, vision_state, llm_state, chunk_state, enrich_state,
                     tmp_exists, doc_open, full_text, result, select_locals >>

PageTexts(pgs) == [i \in 1..Len(pgs) |-> pgs[i].text]

\* "\n\n".join(p.text for p in pages).strip()
FullText(pgs) == Strip(JoinTexts(PageTexts(pgs), << Seg("newline", 2) >>))

\* len(full_text) < 100
TooLittleText_AtMost(text) == TextLen(text) <= MIN_TEXT_CHARS
TooLittleText(text) == TextLen(text) < MIN_TEXT_CHARS

\* lines 361-368: the loop is over; the two checks
CheckText ==
    /\ pc = "loop"
    /\ page_num = Len(doc.pages)
    /\ IF pages = << >>
       THEN /\ exc' = Raise("PDFExtractionError", "no_pages")
            /\ pc' = "except"
            /\ full_text' = full_text
       ELSE /\ full_text' = FullText(pages)
            /\ IF TooLittleText(FullText(pages))
               THEN exc' = Raise("PDFExtractionError", "little_text") /\ pc' = "except"
               ELSE exc' = exc /\ pc' = "select"
    /\ UNCHANGED << doc, run_state, vision_state, llm_state, chunk_state, enrich_state,
                     tmp_exists, doc_open, pages, result, extract_locals, select_locals >>

\* lines 371-376
SelectKeyPages ==
    /\ pc = "select"
    /\ score_keys' = [i \in 1..Len(pages) |-> _score_page(pages[i])]
    /\ key_pages_set' = SelectKeyPageNumbers(pages)
    /\ pc' = "flag"
    /\ UNCHANGED << doc, run_state, vision_state, llm_state, chunk_state, enrich_state,
                     tmp_exists, doc_open, pages, full_text, exc, result,
                    key_page_list, extract_locals >>

\* the positions in pages flagged when the loop of lines 378-383 stops: all
\* those whose page number is in key_pages_set, or, when rendering the failAt-th
\* of them raises, those before it
KeyPositions == { i \in 1..Len(pages) : pages[i].page_number \in key_pages_set }
FlaggedUpTo(failAt) ==
    LET keys == KeyPositions
        before(i) == Cardinality({ j \in keys : j < i })
    IN IF failAt = 0 THEN keys ELSE { i \in keys : before(i) < failAt - 1 }

\* lines 378-383
FlagKeyPages ==
    /\ pc = "flag"
    /\ \E failAt \in 0..Cardinality(KeyPositions) :
         LET flagged == FlaggedUpTo(failAt)
             updated == [i \in 1..Len(pages) |->
                           IF i \in flagged
                           THEN [pages[i] EXCEPT
                                   !.is_key_page = TRUE,
                                   !.png_b64 = _render_full_page(pages[i].page_number,
                                                   doc.pages[pages[i].page_number])]
                           ELSE pages[i]]
             nth(k) == CHOOSE i \in flagged : Cardinality({ j \in flagged : j < i }) = k - 1
         IN /\ pages' = updated
            /\ key_page_list' = [k \in 1..Cardinality(flagged) |-> updated[nth(k)]]
            /\ IF failAt = 0
               THEN pc' = "close" /\ exc' = exc
               ELSE pc' = "except" /\ exc' = Raise("Exception", "full_page")
    /\ UNCHANGED << doc, run_state, vision_state, llm_state, chunk_state, enrich_state,
                     tmp_exists, doc_open, full_text, result, score_keys,
                    key_pages_set, extract_locals >>

\* line 385
CloseDoc ==
    /\ pc = "close"
    /\ doc_open' = FALSE
    /\ pc' = "return"
    /\ UNCHANGED << doc, run_state, vision_state, llm_state, chunk_state, enrich_state,
                     tmp_exists, pages, full_text, exc, result,
                    extract_locals, select_locals >>

\* lines 387-397
Return ==
    /\ pc = "return"
    /\ result' = ParsedPDF(pages, full_text, SortedByPageNumber(key_page_list))
    /\ pc' = "finally"
    /\ UNCHANGED << doc, run_state, vision_state, llm_state, chunk_state, enrich_state,
                     tmp_exists, doc_open, pages, full_text, exc,
                    extract_locals, select_locals >>

\* lines 399-400: a PDFExtractionError is raised again as it is
ExceptPDFExtractionError ==
    /\ pc = "except"
    /\ exc.type = "PDFExtractionError"
    /\ pc' = "finally"
    /\ UNCHANGED << doc, run_state, vision_state, llm_state, chunk_state, enrich_state,
                     tmp_exists, doc_open, pages, full_text, exc, result,
                    extract_locals, select_locals >>

\* lines 401-402: any other exception is wrapped
ExceptException ==
    /\ pc = "except"
    /\ exc.type = "Exception"
    /\ exc' = [type |-> "PDFExtractionError", origin |-> exc.origin, wrapped |-> TRUE]
    /\ pc' = "finally"
    /\ UNCHANGED << doc, run_state, vision_state, llm_state, chunk_state, enrich_state,
                     tmp_exists, doc_open, pages, full_text, result,
                    extract_locals, select_locals >>

\* lines 403-404: safe_unlink(tmp_path), which swallows its own failure; then the
\* return value or the exception in flight reaches the caller
Finally ==
    /\ pc = "finally"
    /\ \E unlinked \in BOOLEAN : tmp_exists' = ~unlinked
    /\ result' = IF exc.type = "none" THEN result ELSE ErrorResult(exc.type, exc.origin)
    /\ pc' = "exit"
    /\ UNCHANGED << doc, run_state, vision_state, llm_state, chunk_state, enrich_state,
                     doc_open, pages, full_text, exc, extract_locals, select_locals >>

\* parse_pdf is called again on the same bytes.  The call starts at line 338
\* with no exception in flight and nothing returned; what the earlier call left
\* in its locals is kept here as it was, so that a step that used any of it
\* before assigning it would show.
CallAgain ==
    /\ pc = "exit"
    /\ runs < MaxRuns
    /\ runs' = runs + 1
    /\ last_parsed' = IF result.kind = "ParsedPDF" THEN result ELSE last_parsed
    /\ pc' = "write_temp"
    /\ exc' = NoExc
    /\ result' = NoResult
    /\ UNCHANGED << doc, tmp_exists, doc_open, pages, full_text,
                    extract_locals, select_locals, vision_state,
                    llm_state, chunk_state, enrich_state >>

Next ==
    \/ WriteTemp
    \/ Open
    \/ ProcessPage
    \/ CheckText
    \/ SelectKeyPages
    \/ FlagKeyPages
    \/ CloseDoc
    \/ Return
    \/ ExceptPDFExtractionError
    \/ ExceptException
    \/ Finally

Spec == Init /\ [][Next]_vars
SpecSel == InitSel /\ [][Next]_vars
SpecCrop == InitCrop /\ [][Next]_vars

NextTwice ==
    \/ Next
    \/ CallAgain

SpecTwice == InitTwice /\ [][NextTwice]_vars

(***************************************************************************)
(* pipeline_service._run_vision and the two vision backends                *)
(***************************************************************************)
\* bound: the key pages handed to _run_vision
MaxKeyPages == 2

has_gemini_Unstripped(s) == s.gemini_api_key # << >>

\* config.py, Settings.has_gemini
has_gemini(s) == s.gemini_api_key # << >> /\ CharStrip(s.gemini_api_key) # << >>

\* how a request for one page can end.  "raises" is an exception that leaves
\* the backend's loop: line 144 of gemini_vision_service.py raising a TypeError,
\* or the model's JSON not being an object, so that data.get fails.
GeminiOutcomes == { "ok", "http_error", "timeout", "unparsable", "raises" }
GroqOutcomes == { "ok", "unparsable", "error", "raises" }

\* the dict a request returns: the figures the backend described, figs, and a
\* page summary, here the pair of the backend and the page that stands for
\* what the backend said; or the empty dict of lines 137, 140 and 154
\* (vision_service.py: 113 and 116)
PageDataFrom(backend, page_number, outcome, figs) ==
    IF outcome = "ok"
    THEN [equations |-> << >>, figures |-> figs, page_summary |-> << backend, page_number >>]
    ELSE [equations |-> << >>, figures |-> << >>, page_summary |-> << >>]

_call_gemini(page_number, outcome, figs) == PageDataFrom("gemini", page_number, outcome, figs)
_analyze_page(page_number, outcome, figs) == PageDataFrom("groq", page_number, outcome, figs)

\* set(re.findall(r'\d+', s.lower())): the maximal runs of digits of s
NumTokens(s) ==
    LET t == [i \in 1..Len(s) |-> Lower(s[i])]
        run(i, j) == /\ i <= j
                     /\ \A k \in i..j : IsDigit(t[k])
                     /\ i = 1 \/ ~IsDigit(t[i - 1])
                     /\ j = Len(t) \/ ~IsDigit(t[j + 1])
    IN { SubSeq(t, p[1], p[2]) :
            p \in { q \in (1..Len(t)) \X (1..Len(t)) : run(q[1], q[2]) } }

_match_cropped_AnyPage(caption, page_number, cropped_figures) ==
    LET hits == { i \in 1..Len(cropped_figures) :
                    NumTokens(caption) \cap NumTokens(cropped_figures[i].caption) # {} }
    IN IF hits # {}
       THEN cropped_figures[CHOOSE i \in hits : \A j \in hits : i <= j].png_b64
       ELSE IF cropped_figures # << >> THEN cropped_figures[1].png_b64 ELSE NoPng

\* vision_service.py lines 119-149, gemini_vision_service.py lines 159-174;
\* "" is NoPng
_match_cropped(caption, page_number, cropped_figures) ==
    LET same_page == SelectSeq(cropped_figures, LAMBDA c : c.page_number = page_number)
        nums_llm == NumTokens(caption)
        hits == { i \in 1..Len(same_page) :
                    nums_llm \cap NumTokens(same_page[i].caption) # {} }
    IN IF hits # {}
       THEN same_page[CHOOSE i \in hits : \A j \in hits : i <= j].png_b64
       ELSE IF same_page # << >> THEN same_page[1].png_b64 ELSE NoPng

\* lines 214-226 (vision_service.py: 187-199): the ExtractedFigures made of
\* the figures of one page's dict
RECURSIVE ExtractedFigures(_, _, _)
ExtractedFigures(figs, page_number, cropped_figures) ==
    IF figs = << >> THEN << >>
    ELSE LET caption == CharStrip(Head(figs).caption)
             desc == CharStrip(Head(figs).description)
             rest == ExtractedFigures(Tail(figs), page_number, cropped_figures)
         IN IF caption = << >> /\ desc = << >> THEN rest
            ELSE << [page_number |-> page_number, caption |-> caption,
                     description |-> desc,
                     png_b64 |-> _match_cropped(caption, page_number, cropped_figures)] >>
                 \o rest

\* lines 204-228 (vision_service.py: 177-203): what one page adds to result
Collected(acc, page_number, data, cropped_figures) ==
    [figures |-> acc.figures \o ExtractedFigures(data.figures, page_number, cropped_figures),
     equations |-> acc.equations \o data.equations,
     page_summaries |->
         IF data.page_summary = << >> THEN acc.page_summaries
         ELSE { e \in acc.page_summaries : e.page_number # page_number }
                  \cup { [page_number |-> page_number, summary |-> data.page_summary] }]

_bridge_vision(src) ==
    [figures |-> src.figures, equations |-> src.equations,
     page_summaries |-> src.page_summaries]

Request_OneBackend(backend, page_number, outcome) ==
    [backend |-> "groq", page |-> page_number, outcome |-> outcome]

\* the record kept of one request
Request(backend, page_number, outcome) ==
    [backend |-> backend, page |-> page_number, outcome |-> outcome]

\* the figures a backend describes on one page: none, or one whose caption
\* names figure 12, names figure 2 among blanks, names figure 7 (of which
\* there is no crop), or is missing; the last has no description either
SaidFigures ==
    { << >>,
      << [caption |-> << "F", "i", "g", "u", "r", "e", " ", "1", "2" >>, description |-> << "d" >>] >>,
      << [caption |-> << " ", "F", "I", "G", ".", " ", "2", " " >>, description |-> << >>] >>,
      << [caption |-> << "F", "i", "g", " ", "7" >>, description |-> << "d" >>] >>,
      << [caption |-> << >>, description |-> << "d" >>], [caption |-> << " " >>, description |-> << " " >>] >> }

\* the crops parse_pdf found: on page 2 figures 1 and 12, on page 3 figure 2
\* with a panel numbered 12
CropSamples ==
    << CroppedFigure(2, << "F", "i", "g", "u", "r", "e", " ", "1", ":" >>,
                     _render_rect(2, Rect(50, 100, 250, 300), CROP_DPI)),
       CroppedFigure(2, << "F", "i", "g", "u", "r", "e", " ", "1", "2", "." >>,
                     _render_rect(2, Rect(300, 100, 500, 300), CROP_DPI)),
       CroppedFigure(3, << "F", "i", "g", ".", "2", " ", "(", "1", "2", ")" >>,
                     _render_rect(3, Rect(50, 400, 250, 600), CROP_DPI)) >>

\* pipeline_service.py lines 119-128 and 141-147: skip, or choose the backend
RunVision ==
    /\ vpc = "start"
    /\ IF ~use_vision \/ parsed.key_pages = << >>
       THEN /\ vision' = Some(VisionAnalysis)
            /\ vpc' = "done"
            /\ called' = called
       ELSE /\ vision' = vision
            /\ vpc' = IF has_gemini(settings) THEN "gemini" ELSE "groq"
            /\ called' = Append(called, IF has_gemini(settings) THEN "gemini" ELSE "groq")
    /\ page_index' = 0
    /\ analysis' = VisionAnalysis
    /\ UNCHANGED << parse_state, llm_state, chunk_state, enrich_state,
                    use_vision, settings, parsed, requests >>

\* analyze_key_pages_gemini, lines 197-228: one key page.  An exception that
\* leaves the loop is caught at pipeline_service.py line 138 and the Groq
\* backend starts.
GeminiPage ==
    /\ vpc = "gemini"
    /\ page_index < Len(parsed.key_pages)
    /\ LET page == parsed.key_pages[page_index + 1] IN
       IF page.png_b64 = NoPng
       THEN /\ page_index' = page_index + 1
            /\ UNCHANGED << vpc, called, analysis, requests >>
       ELSE \E outcome \in GeminiOutcomes, figs \in SaidFigures :
               /\ outcome # "ok" => figs = << >>
               /\ requests' = Append(requests, Request("gemini", page.page_number, outcome))
               /\ IF outcome = "raises"
                  THEN /\ vpc' = "groq"
                       /\ called' = Append(called, "groq")
                       /\ page_index' = 0
                       /\ analysis' = VisionAnalysis
                  ELSE /\ vpc' = vpc
                       /\ called' = called
                       /\ page_index' = page_index + 1
                       /\ analysis' = Collected(analysis, page.page_number,
                                                _call_gemini(page.page_number, outcome, figs),
                                                parsed.all_cropped_figures)
    /\ UNCHANGED << parse_state, llm_state, chunk_state, enrich_state,
                    use_vision, settings, parsed, vision >>

\* analyze_key_pages_gemini line 236, pipeline_service.py line 137
GeminiReturn ==
    /\ vpc = "gemini"
    /\ page_index = Len(parsed.key_pages)
    /\ vision' = Some(_bridge_vision(analysis))
    /\ vpc' = "done"
    /\ UNCHANGED << parse_state, llm_state, chunk_state, enrich_state,
                    use_vision, settings, parsed, page_index, called,
                    analysis, requests >>

\* analyze_key_pages, vision_service.py lines 170-203: one key page.  Nothing
\* catches an exception that leaves the loop.
GroqPage ==
    /\ vpc = "groq"
    /\ page_index < Len(parsed.key_pages)
    /\ LET page == parsed.key_pages[page_index + 1] IN
       IF page.png_b64 = NoPng
       THEN /\ page_index' = page_index + 1
            /\ UNCHANGED << vpc, called, analysis, requests >>
       ELSE \E outcome \in GroqOutcomes, figs \in SaidFigures :
               /\ outcome # "ok" => figs = << >>
               /\ requests' = Append(requests, Request("groq", page.page_number, outcome))
               /\ IF outcome = "raises"
                  THEN vpc' = "raised" /\ UNCHANGED << page_index, called, analysis >>
                  ELSE /\ vpc' = vpc
                       /\ called' = called
                       /\ page_index' = page_index + 1
                       /\ analysis' = Collected(analysis, page.page_number,
                                                _analyze_page(page.page_number, outcome, figs),
                                                parsed.all_cropped_figures)
    /\ UNCHANGED << parse_state, llm_state, chunk_state, enrich_state,
                    use_vision, settings, parsed, vision >>

\* vision_service.py line 211, pipeline_service.py line 148
GroqReturn ==
    /\ vpc = "groq"
    /\ page_index = Len(parsed.key_pages)
    /\ vision' = Some(analysis)
    /\ vpc' = "done"
    /\ UNCHANGED << parse_state, llm_state, chunk_state, enrich_state,
                    use_vision, settings, parsed, page_index, called,
                    analysis, requests >>

NextVision ==
    \/ RunVision
    \/ GeminiPage
    \/ GeminiReturn
    \/ GroqPage
    \/ GroqReturn

\* _run_vision called with vision on or off, with no Gemini key, a blank one
\* or a key, and with up to MaxKeyPages key pages, page n + 1 being the n-th,
\* with or without its image
InitVision ==
    /\ ParseInit([pages |-> << >>])
    /\ LLMIdle /\ ChunkIdle /\ EnrichIdle
    /\ use_vision \in BOOLEAN
    /\ \E k \in { << >>, << " " >>, << "A", "I", "z", "a" >> } :
         settings = [gemini_api_key |-> k]
    /\ \E n \in 0..MaxKeyPages : \E with_png \in [1..n -> BOOLEAN] :
       \E keep \in SUBSET (1..Len(CropSamples)) :
         LET crops == SelectSeq(CropSamples, LAMBDA c : \E i \in keep : CropSamples[i] = c) IN
         parsed = [key_pages |->
                      [i \in 1..n |->
                          [page_number |-> i + 1,
                           png_b64 |-> IF with_png[i]
                                       THEN _render_full_page(i + 1, [rect |-> PageRect])
                                       ELSE NoPng]],
                   all_cropped_figures |-> crops]
    /\ vpc = "start"
    /\ page_index = 0
    /\ called = << >>
    /\ analysis = VisionAnalysis
    /\ requests = << >>
    /\ vision = None

SpecVision == InitVision /\ [][NextVision]_vars

(***************************************************************************)
(* llm_service.chat_completion                                             *)
(***************************************************************************)
\* bound: settings.llm_max_retries
MaxRetries == 3

\* how one request can end: with a response whose content is None, "" or a
\* text, with a response without choices (line 65 raises an IndexError, which
\* the handler of line 85 takes), or with one of the SDK's errors or another
\* exception
FatalErrors == { "AuthenticationError", "RateLimitError" }
RetriedErrors == { "APIConnectionError", "APIStatusError", "IndexError", "Exception" }
LLMOutcomes ==
    { [ok |-> TRUE, content |-> c] : c \in { None, Some(<< >>), Some(<< "t" >>) } }
        \cup { [ok |-> FALSE, error |-> e] : e \in FatalErrors \cup RetriedErrors }

RetrySleep_Flat(delay, n) == delay

\* lines 81 and 89: the argument of time.sleep, in tenths of a second
RetrySleep(delay, n) == delay * n

LLMServiceError(original) ==
    [kind |-> "raised", type |-> "LLMServiceError", original |-> original]

\* lines 53-95: one iteration of the for loop
Attempt ==
    /\ lpc = "loop"
    /\ attempt < settings.llm_max_retries
    /\ attempt' = attempt + 1
    /\ \E outcome \in LLMOutcomes :
         LET request == [kind |-> "request", attempt |-> attempt', outcome |-> outcome] IN
         IF outcome.ok
         THEN /\ events' = Append(events, request)
              /\ llm_result' = [kind |-> "returned",
                                content |-> IF outcome.content = None THEN << >>
                                            ELSE outcome.content.v]
              /\ lpc' = "returned"
              /\ last_exc' = last_exc
         ELSE IF outcome.error \in FatalErrors
         THEN /\ events' = Append(events, request)
              /\ llm_result' = LLMServiceError(Some(outcome.error))
              /\ lpc' = "raised"
              /\ last_exc' = last_exc
         ELSE /\ last_exc' = Some(outcome.error)
              /\ IF attempt' < settings.llm_max_retries
                 THEN /\ events' = events \o
                           << request,
                              [kind |-> "sleep", attempt |-> attempt',
                               tenths |-> RetrySleep(settings.llm_retry_delay, attempt')] >>
                      /\ UNCHANGED << lpc, llm_result >>
                 ELSE /\ events' = Append(events, request)
                      /\ llm_result' = LLMServiceError(Some(outcome.error))
                      /\ lpc' = "raised"
    /\ UNCHANGED << parse_state, vision_state, chunk_state, enrich_state >>

Exhausted_Returns ==
    /\ lpc = "loop"
    /\ attempt >= settings.llm_max_retries
    /\ llm_result' = [kind |-> "returned", content |-> << >>]
    /\ lpc' = "returned"
    /\ UNCHANGED << parse_state, vision_state, chunk_state, enrich_state,
                    attempt, last_exc, events >>

\* lines 97-100: the loop ended without a return or a raise
Exhausted ==
    /\ lpc = "loop"
    /\ attempt >= settings.llm_max_retries
    /\ llm_result' = LLMServiceError(last_exc)
    /\ lpc' = "raised"
    /\ UNCHANGED << parse_state, vision_state, chunk_state, enrich_state,
                    attempt, last_exc, events >>

\* chat_completion called with llm_max_retries from 0 to MaxRetries and an
\* llm_retry_delay of 0 or 1.5 seconds, lines 43-51 done
InitLLM ==
    /\ ParseInit([pages |-> << >>])
    /\ ChunkIdle /\ EnrichIdle
    /\ use_vision = FALSE
    /\ \E n \in 0..MaxRetries : \E d \in { 0, 15 } :
         settings = [gemini_api_key |-> << >>, llm_max_retries |-> n, llm_retry_delay |-> d]
    /\ parsed = [key_pages |-> << >>, all_cropped_figures |-> << >>]
    /\ vpc = "idle"
    /\ page_index = 0
    /\ called = << >>
    /\ analysis = VisionAnalysis
    /\ requests = << >>
    /\ vision = None
    /\ lpc = "loop"
    /\ attempt = 0
    /\ last_exc = None
    /\ events = << >>
    /\ llm_result = None

SpecLLM == InitLLM /\ [][Attempt \/ Exhausted]_vars

(***************************************************************************)
(* chunker.chunk_text                                                      *)
(***************************************************************************)
DIRECT_THRESHOLD == 5000
CHUNK_SIZE == 6000
OVERLAP == 500
MAX_CHUNKS == 12

\* bound: the paragraph breaks, and the sentence breaks, of a text
MaxBreaks == 1

\* text.rfind(sub, lo, hi), given the offsets at which sub occurs in text
rfind(offsets, lo, hi) ==
    LET found == { i \in offsets : lo <= i /\ i + 2 <= hi } IN
    IF found = {} THEN -1 ELSE CHOOSE i \in found : \A j \in found : j <= i

ChunkEnd_Unclipped(t, from) == from + CHUNK_SIZE

\* lines 67-79: where the chunk that starts at from ends
ChunkEnd(t, from) ==
    LET end == Min(from + CHUNK_SIZE, t.len)
        para_break == rfind(t.para, from + CHUNK_SIZE \div 2, end)
        sent_break == rfind(t.sent, from + CHUNK_SIZE \div 2, end)
    IN IF end < t.len
       THEN IF para_break # -1 THEN para_break + 2
            ELSE IF sent_break # -1 THEN sent_break + 2 ELSE end
       ELSE end

\* Chunk(index, text[start:end], start, end); the slice is kept as its ends
Chunk(index, from, to) ==
    [index |-> index, text |-> << from, to >>, start |-> from, end |-> to]

\* lines 58-64
ChunkStart ==
    /\ cpc = "start"
    /\ IF full.len <= DIRECT_THRESHOLD
       THEN chunks' = << Chunk(0, 0, full.len) >> /\ cpc' = "returned"
       ELSE chunks' = << >> /\ cpc' = "loop"
    /\ start' = 0
    /\ idx' = 0
    /\ UNCHANGED << parse_state, vision_state, llm_state, enrich_state, full >>

\* lines 66-84: one iteration of the while loop
ChunkIteration ==
    /\ cpc = "loop"
    /\ start < full.len /\ idx < MAX_CHUNKS
    /\ LET end == ChunkEnd(full, start) IN
       /\ chunks' = Append(chunks, Chunk(idx, start, end))
       /\ start' = Max(end - OVERLAP, end - CHUNK_SIZE \div 4)
    /\ idx' = idx + 1
    /\ UNCHANGED << parse_state, vision_state, llm_state, enrich_state, cpc, full >>

\* lines 86-90: the loop is over
ChunkReturn ==
    /\ cpc = "loop"
    /\ ~(start < full.len /\ idx < MAX_CHUNKS)
    /\ cpc' = "returned"
    /\ UNCHANGED << parse_state, vision_state, llm_state, enrich_state,
                    full, start, idx, chunks >>

\* chunk_text called on texts whose lengths lie around the direct threshold,
\* around one and two chunks and around what MAX_CHUNKS chunks can hold, with
\* at most MaxBreaks "\n\n" and MaxBreaks ". " at offsets around the window
\* [start + CHUNK_SIZE \div 2, end) in which chunk_text looks for them
InitChunk ==
    /\ ParseInit([pages |-> << >>])
    /\ VisionIdle /\ LLMIdle /\ EnrichIdle
    /\ \E n \in { 0, 1, 4999, 5000, 5001, 6000, 6001, 11500, 12000, 30000,
                  66500, 66501, 70000 } :
       \E P \in SUBSET { 2999, 3000, 5998, 5999, 8500, 20000, 63000 } :
       \E S \in SUBSET { 2500, 4000, 5995, 9000, 40000 } :
          /\ Cardinality(P) <= MaxBreaks
          /\ Cardinality(S) <= MaxBreaks
          /\ \A i \in P \cup S : i + 2 <= n
          /\ full = [len |-> n, para |-> P, sent |-> S]
    /\ cpc = "start"
    /\ start = 0
    /\ idx = 0
    /\ chunks = << >>

SpecChunk == InitChunk /\ [][ChunkStart \/ ChunkIteration \/ ChunkReturn]_vars

(***************************************************************************)
(* summarizer_service.enrich_sections_with_marker                          *)
(***************************************************************************)
\* bound: the equations of the sections, and those of marker
MaxEquations == 2

\* lines 162-170: the extras made of the marker equations, existing_latex
\* growing with each one taken
RECURSIVE MarkerExtras(_, _)
MarkerExtras(marker, existing_latex) ==
    IF marker = << >> THEN << >>
    ELSE LET meq == Head(marker) IN
         IF CharStrip(meq.latex) \notin existing_latex /\ meq.is_block
         THEN << [page_number |-> 0, latex |-> meq.latex,
                  description |-> IF meq.context = << >>
                                  THEN << "E", "q", "u", "a", "t", "i", "o", "n" >>
                                  ELSE meq.context] >>
              \o MarkerExtras(Tail(marker), existing_latex \cup { CharStrip(meq.latex) })
         ELSE MarkerExtras(Tail(marker), existing_latex)

\* lines 155-177
enrich_sections_with_marker ==
    /\ epc = "start"
    /\ LET existing_latex ==
               { CharStrip(sections.equations[i].latex) : i \in 1..Len(sections.equations) }
           extras == MarkerExtras(marker_equations, existing_latex)
       IN enriched' = IF marker_equations = << >> \/ extras = << >>
                      THEN Some(sections)
                      ELSE Some([sections EXCEPT !.equations = @ \o extras])
    /\ epc' = "returned"
    /\ UNCHANGED << parse_state, vision_state, llm_state, chunk_state,
                    sections, marker_equations >>

\* enrich_sections_with_marker called on sections with up to MaxEquations
\* equations that vision found and up to MaxEquations marker equations, block
\* or inline, one of them an equation vision found too, written with a blank
InitEnrich ==
    /\ ParseInit([pages |-> << >>])
    /\ VisionIdle /\ LLMIdle /\ ChunkIdle
    /\ \E n \in 0..MaxEquations :
       \E eqs \in [1..n -> { [page_number |-> 2, latex |-> l, description |-> << "d" >>] :
                                l \in { << "a" >>, << "b" >> } }] :
          sections = [equations |-> eqs]
    /\ \E n \in 0..MaxEquations :
          marker_equations \in
             [1..n -> { [latex |-> << " ", "a" >>, is_block |-> TRUE, context |-> << "c" >>],
                        [latex |-> << "c" >>, is_block |-> TRUE, context |-> << >>],
                        [latex |-> << "c" >>, is_block |-> FALSE, context |-> << "c" >>],
                        [latex |-> << "e" >>, is_block |-> TRUE, context |-> << "c" >>] }]
    /\ epc = "start"
    /\ enriched = None

SpecEnrich == InitEnrich /\ [][enrich_sections_with_marker]_vars

(***************************************************************************)
(* Properties                                                              *)
(***************************************************************************)
NumPages == Len(doc.pages)
Exited == pc = "exit"
Returned == pc = "exit" /\ result.kind = "ParsedPDF"

\* the page numbers of the returned key pages
KeyNumbers == { result.key_pages[j].page_number : j \in 1..Len(result.key_pages) }
\* the pages other than page 1 and the last page
Remaining == { p \in 1..NumPages : p # 1 /\ p # NumPages }
Half == Frac(1, 2)
\* page q comes before page p when the pages are ranked by score, highest first,
\* pages of equal score in page order
RanksBefore(q, p) ==
    \/ FracGT(score_keys[q], score_keys[p])
    \/ FracEQ(score_keys[q], score_keys[p]) /\ q < p
RankOf(p) == 1 + Cardinality({ q \in 1..NumPages : RanksBefore(q, p) })
AboveHalf == { p \in Remaining : FracGT(score_keys[p], Half) }

\* C1: after a successful parse, key_pages is a subset of pages, strictly
\* increasing in page number, holds page 1, and holds page N when N > 1.
C1_KeyPagesInvariant ==
    Returned =>
        LET kp == result.key_pages IN
        /\ Len(result.pages) = NumPages
        /\ \A j \in 1..Len(kp) :
             /\ kp[j].page_number \in 1..Len(result.pages)
             /\ result.pages[kp[j].page_number] = kp[j]
        /\ \A j \in 1..(Len(kp) - 1) : kp[j].page_number < kp[j + 1].page_number
        /\ 1 \in KeyNumbers
        /\ NumPages > 1 => NumPages \in KeyNumbers

\* page 1 and the last page are key pages by rule only (neither scores above
\* 0.5), next to key pages chosen by score
C1_Witness ==
    /\ Returned
    /\ NumPages >= 3
    /\ ~FracGT(score_keys[1], Half)
    /\ ~FracGT(score_keys[NumPages], Half)
    /\ {1, NumPages} \subseteq KeyNumbers
    /\ KeyNumbers \cap Remaining # {}

\* C2: the number of key pages is at most N and at most 2 + MAX_VISION_PAGES.
C2_KeyPageCount ==
    Returned =>
        /\ Len(result.key_pages) <= NumPages
        /\ Len(result.key_pages) <= 2 + MAX_VISION_PAGES

\* more than MAX_VISION_PAGES pages besides the first and last score above 0.5,
\* and the count reaches 2 + MAX_VISION_PAGES
C2_Witness ==
    /\ Returned
    /\ Cardinality(AboveHalf) > MAX_VISION_PAGES
    /\ Len(result.key_pages) = 2 + MAX_VISION_PAGES

\* C3 as stated: of the k remaining pages scoring above 0.5, exactly min(k, 8)
\* are key pages, the highest-scoring ones.
C3_Original ==
    Returned =>
        LET sel == KeyNumbers \cap Remaining IN
        /\ sel \subseteq AboveHalf
        /\ Cardinality(sel) = Min(Cardinality(AboveHalf), MAX_VISION_PAGES)
        /\ \A p \in sel, q \in Remaining \ sel : ~FracGT(score_keys[q], score_keys[p])

\* C3 amended: a remaining page is a key page exactly when it scores above 0.5
\* and fewer than 8 pages of the whole document, page 1 and the last page
\* included, rank before it; so of the k remaining pages scoring above 0.5
\* exactly min(k, 8 - e) are key pages, the highest-scoring ones, where e counts
\* page 1 and the last page when they rank among the 8 highest-scoring pages.
C3_TopOfAllPages ==
    Returned =>
        LET sel == KeyNumbers \cap Remaining
            k == Cardinality(AboveHalf)
            e == Cardinality({ p \in {1, NumPages} : RankOf(p) <= MAX_VISION_PAGES })
        IN /\ \A p \in Remaining :
                p \in sel <=> (FracGT(score_keys[p], Half) /\ RankOf(p) <= MAX_VISION_PAGES)
           /\ Cardinality(sel) = Min(k, MAX_VISION_PAGES - e)
           /\ \A p \in sel, q \in Remaining \ sel : ~FracGT(score_keys[q], score_keys[p])

\* page 1 takes one of the 8 places, and fewer than min(k, 8) remaining pages
\* are key pages
C3_Witness ==
    /\ Returned
    /\ RankOf(1) <= MAX_VISION_PAGES
    /\ Cardinality(AboveHalf) >= MAX_VISION_PAGES
    /\ Cardinality(KeyNumbers \cap Remaining) < MAX_VISION_PAGES

\* C4: a page other than the first and last is a key page only if its score is
\* strictly above 0.5; one scoring exactly 0.5 never is; one scoring 0.51 is
\* whenever it ranks within the 8-page cap.
C4_StrictThreshold ==
    Returned =>
        \A p \in Remaining :
            /\ p \in KeyNumbers => FracGT(score_keys[p], Half)
            /\ FracEQ(score_keys[p], Half) => p \notin KeyNumbers
            /\ (FracEQ(score_keys[p], Frac(51, 100)) /\ RankOf(p) <= MAX_VISION_PAGES)
                  => p \in KeyNumbers

\* a page scoring exactly 0.5 left out next to a page scoring 0.51 taken
C4_Witness ==
    /\ Returned
    /\ \E p \in Remaining, q \in Remaining :
         /\ FracEQ(score_keys[p], Half) /\ p \notin KeyNumbers
         /\ FracEQ(score_keys[q], Frac(51, 100)) /\ q \in KeyNumbers

\* C5: the score of a page is 4.0 x (has the keyword) + 3.0 x (cropped figures)
\* + 2.0 x min(image count, 3) + 20.0 x (symbol density), the density being the
\* share of math symbols among the characters of the page text.
C5_ScoreFormula ==
    \A i \in 1..Len(score_keys) :
        LET pd == pages[i]
            len == TextLen(pd.text)
            syms == Cardinality({ j \in 1..len : CharAt(pd.text, j) = "math" })
            base == 4 * (IF pd.has_figure_keyword THEN 1 ELSE 0)
                      + 3 * Len(pd.cropped_figures)
                      + 2 * Min(doc.pages[i].images, 3)
        IN IF len = 0
           THEN FracEQ(score_keys[i], Frac(base, 1))
           ELSE FracEQ(score_keys[i], Frac(base * len + 20 * syms, len))

\* a scored page with a raster image and no caption: no figure, no keyword, and
\* the image alone gives it 2.0
C5_Witness ==
    \E i \in 1..Len(score_keys) :
        /\ FindCaptions(_collect_text_blocks(doc.pages[i])) = << >>
        /\ _collect_raster_blocks(doc.pages[i]) # << >>
        /\ pages[i].cropped_figures = << >>
        /\ pages[i].image_count = 1
        /\ FracEQ(score_keys[i], Frac(2, 1))

\* The string that joins the texts ts with sepLen newlines between them,
\* character by character, and what trimming it leaves.
RECURSIVE SumLen(_, _)
SumLen(ts, p) == IF p = 0 THEN 0 ELSE TextLen(ts[p]) + SumLen(ts, p - 1)
OffsetOf(ts, sepLen, p) == SumLen(ts, p - 1) + sepLen * (p - 1)
JoinedLen(ts, sepLen) == IF ts = << >> THEN 0 ELSE OffsetOf(ts, sepLen, Len(ts)) + TextLen(ts[Len(ts)])
JoinedChar(ts, sepLen, i) ==
    LET inside == { p \in 1..Len(ts) :
                      OffsetOf(ts, sepLen, p) < i /\ i <= OffsetOf(ts, sepLen, p) + TextLen(ts[p]) }
    IN IF inside = {} THEN "newline"
       ELSE LET p == CHOOSE p \in inside : TRUE IN CharAt(ts[p], i - OffsetOf(ts, sepLen, p))
IsInk(ts, sepLen, i) == JoinedChar(ts, sepLen, i) \notin {"space", "newline"}
\* the first and the last position that holds no whitespace (<<1, 0>>: none does)
RECURSIVE FirstInkFrom(_, _, _)
FirstInkFrom(ts, sepLen, i) ==
    IF i > JoinedLen(ts, sepLen) \/ IsInk(ts, sepLen, i) THEN i
    ELSE FirstInkFrom(ts, sepLen, i + 1)
RECURSIVE LastInkFrom(_, _, _)
LastInkFrom(ts, sepLen, i) ==
    IF i < 1 \/ IsInk(ts, sepLen, i) THEN i
    ELSE LastInkFrom(ts, sepLen, i - 1)
InkSpan(ts, sepLen) ==
    LET first == FirstInkFrom(ts, sepLen, 1) IN
    IF first > JoinedLen(ts, sepLen) THEN << 1, 0 >>
    ELSE << first, LastInkFrom(ts, sepLen, JoinedLen(ts, sepLen)) >>
TrimmedLen(ts, sepLen) == LET span == InkSpan(ts, sepLen) IN span[2] - span[1] + 1
IsTrimmedJoin(text, ts, sepLen) ==
    LET span == InkSpan(ts, sepLen) IN
    /\ TextLen(text) = span[2] - span[1] + 1
    /\ \A i \in 1..TextLen(text) : CharAt(text, i) = JoinedChar(ts, sepLen, span[1] + i - 1)

DocTexts == [i \in 1..NumPages |-> doc.pages[i].text]
PagesInOrder ==
    /\ Len(result.pages) = NumPages
    /\ \A i \in 1..NumPages :
         result.pages[i].page_number = i /\ result.pages[i].text = doc.pages[i].text

\* C6 as stated: N pages numbered 1..N in order, and full_text is the page
\* texts joined with one newline between them, trimmed.
C6_Original ==
    Returned => PagesInOrder /\ IsTrimmedJoin(result.full_text, DocTexts, 1)

\* C6 amended: N pages numbered 1..N in order, and full_text is the page texts
\* joined with two newlines (a blank line) between them, trimmed of leading and
\* trailing whitespace.
C6_BlankLineJoin ==
    Returned => PagesInOrder /\ IsTrimmedJoin(result.full_text, DocTexts, 2)

\* two pages, and trimming removed whitespace from both ends of the joined text
C6_Witness ==
    /\ Returned
    /\ NumPages >= 2
    /\ doc.pages[1].text # << >>
    /\ doc.pages[NumPages].text # << >>
    /\ IsSpaceSeg(Head(doc.pages[1].text))
    /\ IsSpaceSeg(doc.pages[NumPages].text[Len(doc.pages[NumPages].text)])
    /\ TextLen(result.full_text) < JoinedLen(DocTexts, 2)

\* C7: once parse_pdf has its temporary file, it ends in PDFExtractionError and
\* returns no ParsedPDF whenever the document has no page or its joined, trimmed
\* text is shorter than 100 characters; with at least one page and exactly 100
\* characters neither check fails, and the parse returns unless opening or
\* rendering failed.
C7_ExtractionErrors ==
    (Exited /\ result.kind # "OSError") =>
        LET len == TrimmedLen(DocTexts, 2) IN
        /\ (NumPages = 0 \/ len < 100) => result.kind = "PDFExtractionError"
        /\ (NumPages >= 1 /\ len = 100) =>
             /\ result.origin \notin {"no_pages", "little_text"}
             /\ result.kind = "ParsedPDF" \/ result.origin \in {"open", "crop", "full_page"}

\* a document of 99 characters refused for its text, next to the zero-page and
\* 100-character cases reached by other runs
C7_Witness ==
    /\ Exited
    /\ NumPages >= 1
    /\ TrimmedLen(DocTexts, 2) = 99
    /\ result.kind = "PDFExtractionError"
    /\ result.origin = "little_text"

\* C8: the document handle, once opened, is closed when parse_pdf exits, on
\* every exit path.
C8_ClosedOnEveryExit == Exited => ~doc_open

\* C9: a failure while cropping one caption never aborts the run: no run ends
\* in an error that a crop raised.
C9_CropFailureNeverAborts ==
    Exited => ~(result.kind # "ParsedPDF" /\ result.origin = "crop")

\* the page whose drawings the latest _extract_cropped_figures call collected
CurrentPage == doc.pages[page_num]
LargeDrawing(r) == r.x1 - r.x0 > 10 /\ r.y1 - r.y0 > 10
OtherCollectorsRan ==
    /\ raster_rects =
         SelectSeq([j \in 1..Len(CurrentPage.blocks) |-> CurrentPage.blocks[j].bbox],
                   LAMBDA r : LargeDrawing(r)
                              /\ \E j \in 1..Len(CurrentPage.blocks) :
                                   CurrentPage.blocks[j].type = 1 /\ CurrentPage.blocks[j].bbox = r)
    /\ Len(captions) =
         Cardinality({ j \in 1..Len(CurrentPage.blocks) :
                         /\ CurrentPage.blocks[j].type = 0
                         /\ FIGURE_CAPTION_RE(JoinSpans(CurrentPage.blocks[j].spans)) })

PageTop == CurrentPage.rect.y0
PageBottom == CurrentPage.rect.y1
PageLeft == CurrentPage.rect.x0
PageRight == CurrentPage.rect.x1
Iterations == 1..Len(crop_trace)
CropRan == page_num >= 1

\* C11: for every caption the figure is classified above exactly when the
\* caption's top edge lies more than 30% of the page height below the page top
\* (a top edge on the 30% line is below); the search zone has the page's left
\* and right edges and runs from the page top to the caption top when above,
\* from the caption bottom to the page bottom when below.
C11_AboveBelowZone ==
    CropRan =>
        \A i \in Iterations :
            LET it == crop_trace[i] IN
            /\ it.fig_above <=>
                 10 * (it.cap_rect.y0 - PageTop) > 3 * (PageBottom - PageTop)
            /\ it.search_zone.x0 = PageLeft
            /\ it.search_zone.x1 = PageRight
            /\ it.fig_above =>
                 it.search_zone.y0 = PageTop /\ it.search_zone.y1 = it.cap_rect.y0
            /\ ~it.fig_above =>
                 it.search_zone.y0 = it.cap_rect.y1 /\ it.search_zone.y1 = PageBottom

\* a caption whose top edge is on the 30% line was classified below and the
\* zone under it was searched
C11_Witness ==
    /\ CropRan
    /\ \E i \in Iterations :
         /\ 10 * (crop_trace[i].cap_rect.y0 - PageTop) = 3 * (PageBottom - PageTop)
         /\ ~crop_trace[i].fig_above
         /\ crop_trace[i].search_zone.y1 = PageBottom

\* the drawing and raster rectangles collected on the page
Candidates ==
    { drawing_rects[j] : j \in 1..Len(drawing_rects) }
        \cup { raster_rects[j] : j \in 1..Len(raster_rects) }
Least(S) == CHOOSE x \in S : \A y \in S : x <= y
Greatest(S) == CHOOSE x \in S : \A y \in S : x >= y
\* the bounding box of a non-empty set of rectangles
BoundingBox(S) ==
    [x0 |-> Least({r.x0 : r \in S}), y0 |-> Least({r.y0 : r \in S}),
     x1 |-> Greatest({r.x1 : r \in S}), y1 |-> Greatest({r.y1 : r \in S})]
\* a rectangle clipped to a zone, and whether what is left exceeds the minimum
Clipped(r, z) ==
    [x0 |-> Max(r.x0, z.x0), y0 |-> Max(r.y0, z.y0),
     x1 |-> Min(r.x1, z.x1), y1 |-> Min(r.y1, z.y1)]
Survives(r, z) ==
    Clipped(r, z).x1 - Clipped(r, z).x0 > 10 /\ Clipped(r, z).y1 - Clipped(r, z).y0 > 10
Survivors(it) == { r \in Candidates : Survives(r, it.search_zone) }
Over20(r) == r.x1 - r.x0 > 20 /\ r.y1 - r.y0 > 20

\* C12 as stated: when a rectangle survives, the region is the bounding box of
\* the surviving intersections (the rectangles clipped to the zone) united with
\* the caption rectangle.
C12_Original ==
    CropRan =>
        \A i \in Iterations :
            LET it == crop_trace[i] IN
            Survivors(it) # {} =>
                /\ ~it.region.none
                /\ it.region.v =
                     BoundingBox({ Clipped(r, it.search_zone) : r \in Survivors(it) }
                                     \cup { it.cap_rect })

\* C12 amended: when a rectangle survives and the bounding box of the surviving
\* rectangles themselves, not clipped, is more than 20 points wide and high,
\* the region is that bounding box united with the caption rectangle; the
\* rectangles whose intersection was discarded do not affect it.
C12_WholeSurvivors ==
    CropRan =>
        \A i \in Iterations :
            LET it == crop_trace[i] IN
            (Survivors(it) # {} /\ Over20(BoundingBox(Survivors(it)))) =>
                /\ ~it.region.none
                /\ it.region.v = BoundingBox(Survivors(it) \cup { it.cap_rect })

\* one rectangle was discarded, another survived though the zone cuts it, and
\* the region reaches past the zone
C12_Witness ==
    /\ CropRan
    /\ \E i \in Iterations :
         LET it == crop_trace[i] IN
         /\ Candidates \ Survivors(it) # {}
         /\ \E r \in Survivors(it) : Clipped(r, it.search_zone) # r
         /\ Over20(BoundingBox(Survivors(it)))
         /\ ~it.region.none
         /\ it.fig_above
         /\ it.region.v.y1 > it.cap_rect.y1

\* the points between the page top and the caption top
SpanAbove(it) == it.cap_rect.y0 - PageTop
IsAbove(it) == 10 * SpanAbove(it) > 3 * (PageBottom - PageTop)
FixedFallback(it) ==
    [x0 |-> it.cap_rect.x0 - 20, y0 |-> it.cap_rect.y0 - Min(200, SpanAbove(it)),
     x1 |-> it.cap_rect.x1 + 20, y1 |-> it.cap_rect.y1]

\* C13 as stated: the fallback region is produced exactly when no rectangle
\* survives and the figure is above with more than 40 points between page top
\* and caption top; it then reaches min(200, span) points above the caption top
\* and 20 points left and right of the caption; in every other case with no
\* surviving rectangle there is no region.
C13_Original ==
    CropRan =>
        \A i \in Iterations :
            LET it == crop_trace[i]
                falls == Survivors(it) = {} /\ IsAbove(it) /\ SpanAbove(it) > 40
            IN /\ (it.via = "fallback") <=> falls
               /\ falls => it.region = Some(FixedFallback(it))
               /\ (Survivors(it) = {} /\ ~falls) => it.region.none

\* C13 amended: the fallback region is produced exactly when the surviving
\* rectangles give no usable union (none survives, or their bounding box is not
\* more than 20 points in both dimensions) and the figure is above with more
\* than 40 points between page top and caption top; in every other case with
\* no usable union there is no region.
NoUsableUnion(it) == Survivors(it) = {} \/ ~Over20(BoundingBox(Survivors(it)))
C13_FallbackWithoutUsableUnion ==
    CropRan =>
        \A i \in Iterations :
            LET it == crop_trace[i]
                falls == NoUsableUnion(it) /\ IsAbove(it) /\ SpanAbove(it) > 40
            IN /\ (it.via = "fallback") <=> falls
               /\ falls => it.region = Some(FixedFallback(it))
               /\ (NoUsableUnion(it) /\ ~falls) => it.region.none

\* a rectangle survived, but only 15 points wide: the fallback region was
\* produced, less than 200 points high
C13_Witness ==
    /\ CropRan
    /\ \E i \in Iterations :
         LET it == crop_trace[i] IN
         /\ Survivors(it) # {}
         /\ it.via = "fallback"
         /\ SpanAbove(it) < 200
         /\ it.region = Some(FixedFallback(it))

\* the cropped figures of the pages extracted so far, as (page, index) pairs
Figures ==
    UNION { { << p, k >> : k \in 1..Len(pages[p].cropped_figures) } : p \in 1..Len(pages) }
FigureAt(pk) == pages[pk[1]].cropped_figures[pk[2]]
InsidePage(r, page_rect) ==
    /\ page_rect.x0 <= r.x0 /\ r.x0 <= r.x1 /\ r.x1 <= page_rect.x1
    /\ page_rect.y0 <= r.y0 /\ r.y0 <= r.y1 /\ r.y1 <= page_rect.y1

\* C14: every crop rectangle rendered into a CroppedFigure lies inside the
\* page rectangle: after padding and clamping none of its four coordinates is
\* outside the page, wherever the caption, drawings and rasters lie.
C14_CropInsidePage ==
    /\ \A pk \in Figures :
         InsidePage(FigureAt(pk).png_b64.clip, doc.pages[pk[1]].rect)
    /\ CropRan =>
         \A i \in Iterations :
             crop_trace[i].rendered =>
                 InsidePage(crop_trace[i].crop_rect.v, CurrentPage.rect)

\* a figure was cropped whose inferred region reached past the left page edge
\* and whose crop starts on that edge
C14_Witness ==
    /\ CropRan
    /\ Len(pages) = page_num
    /\ pages[page_num].cropped_figures # << >>
    /\ \E i \in Iterations :
         /\ crop_trace[i].rendered
         /\ crop_trace[i].region.v.x0 < PageLeft
         /\ crop_trace[i].crop_rect.v.x0 = PageLeft
         /\ pages[page_num].cropped_figures[1].png_b64.clip = crop_trace[i].crop_rect.v

Under20(r) == r.x1 - r.x0 < 20 \/ r.y1 - r.y0 < 20

\* C15: no CroppedFigure comes from a final crop rectangle less than 20 points
\* wide or high; when padding and clamping leave such a rectangle the caption
\* is not rendered and the loop goes on to the next caption.
C15_NoSmallCrop ==
    /\ \A pk \in Figures : ~Under20(FigureAt(pk).png_b64.clip)
    /\ CropRan =>
         \A i \in Iterations :
             LET it == crop_trace[i] IN
             (~it.crop_rect.none /\ Under20(it.crop_rect.v)) =>
                 /\ ~it.rendered
                 /\ i < Len(captions) => Len(crop_trace) > i

\* the first caption's clamped crop was 18 points wide and gave no figure; the
\* caption after it gave the page's only figure
C15_Witness ==
    /\ CropRan
    /\ Len(pages) = page_num
    /\ Len(crop_trace) = 2
    /\ ~crop_trace[1].crop_rect.none
    /\ crop_trace[1].crop_rect.v.x1 - crop_trace[1].crop_rect.v.x0 = 18
    /\ ~crop_trace[1].rendered
    /\ crop_trace[2].rendered
    /\ Len(pages[page_num].cropped_figures) = 1
    /\ pages[page_num].cropped_figures[1].caption = crop_trace[2].cap_text

\* the texts of the page's text blocks that match the caption pattern, in
\* block order
MatchedCaptions(page) ==
    LET texts == [j \in 1..Len(page.blocks) |->
                     IF page.blocks[j].type = 0
                     THEN CharStrip(JoinSpans(page.blocks[j].spans)) ELSE << >>]
    IN SelectSeq(texts, FIGURE_CAPTION_RE)
IsIncreasing(f) == \A j, k \in DOMAIN f : j < k => f[j] < f[k]

\* C16: a page none of whose text blocks matches the caption pattern has no
\* cropped figures, whatever drawings and rasters it holds; on every page the
\* cropped figures come from distinct matched captions, in caption order, and
\* each carries the page's number and its caption's text.
C16_FiguresFollowCaptions ==
    \A p \in 1..Len(pages) :
        LET figs == pages[p].cropped_figures
            caps == MatchedCaptions(doc.pages[p])
        IN /\ caps = << >> => figs = << >>
           /\ Len(figs) <= Len(caps)
           /\ \E f \in [1..Len(figs) -> 1..Len(caps)] :
                /\ IsIncreasing(f)
                /\ \A k \in 1..Len(figs) :
                     figs[k].caption = caps[f[k]] /\ figs[k].page_number = p

\* page 2 has two captions and a figure for each, in their order, carrying
\* page number 2
C16_Witness ==
    /\ Len(pages) = 2
    /\ Len(MatchedCaptions(doc.pages[2])) = 2
    /\ Len(pages[2].cropped_figures) = 2
    /\ pages[2].cropped_figures[1].caption = CapFigure1
    /\ pages[2].cropped_figures[2].caption = CapFig2
    /\ pages[2].cropped_figures[2].page_number = 2

InKeyPages(pd) == \E k \in 1..Len(result.key_pages) : result.key_pages[k] = pd

\* after a successful parse a page is flagged, and has a full-page image,
\* exactly if it is in key_pages
FlagsMatchKeyPages ==
    Returned =>
        \A i \in 1..Len(result.pages) :
            /\ result.pages[i].is_key_page <=> InKeyPages(result.pages[i])
            /\ result.pages[i].png_b64 # NoPng <=> InKeyPages(result.pages[i])

\* a step of selection (lines 371-383) keeps the pages and, of each page, every
\* field but is_key_page and png_b64
SelectionFrame ==
    pc \in { "select", "flag" } =>
        /\ Len(pages') = Len(pages)
        /\ \A i \in 1..Len(pages) :
             /\ pages'[i].page_number = pages[i].page_number
             /\ pages'[i].text = pages[i].text
             /\ pages'[i].has_figure_keyword = pages[i].has_figure_keyword
             /\ pages'[i].math_density = pages[i].math_density
             /\ pages'[i].image_count = pages[i].image_count
             /\ pages'[i].cropped_figures = pages[i].cropped_figures

\* C18: after a successful parse a page has is_key_page set and a full-page
\* image if and only if it is in key_pages, and selection changes no other
\* field of any page.
C18_KeyFlagsAndFrame == []FlagsMatchKeyPages /\ [][SelectionFrame]_vars

\* a parse returned pages of which one is a key page with cropped figures,
\* flagged and rendered, and another is not a key page
C18_Witness ==
    /\ Returned
    /\ \E i, j \in 1..Len(result.pages) :
         /\ InKeyPages(result.pages[i])
         /\ result.pages[i].cropped_figures # << >>
         /\ result.pages[i].is_key_page
         /\ result.pages[i].png_b64 # NoPng
         /\ ~InKeyPages(result.pages[j])
         /\ ~result.pages[j].is_key_page
         /\ result.pages[j].png_b64 = NoPng

(***************************************************************************)
(* The vision backends                                                     *)
(***************************************************************************)
\* a Gemini key is available: the configured key has a character that is not
\* a blank
KeyAvailable == \E i \in 1..Len(settings.gemini_api_key) : settings.gemini_api_key[i] # " "
VisionSkipped == ~use_vision \/ parsed.key_pages = << >>
RequestsOf(backend) == { i \in 1..Len(requests) : requests[i].backend = backend }
\* Gemini has failed before the i-th request: an earlier request to it raised
GeminiRaisedBefore(i) ==
    \E j \in RequestsOf("gemini") : j < i /\ requests[j].outcome = "raises"

\* C19: with vision disabled or no key pages, no backend is called and no
\* request is made.  Otherwise, once _run_vision has chosen: with a Gemini key
\* available Gemini is the first backend called, Groq is called at most once
\* and only after it, and every request to Groq follows a Gemini request that
\* raised; without a Gemini key Groq is the only backend called and the only
\* one that gets requests.
C19_PreferenceOrder ==
    /\ VisionSkipped => called = << >> /\ requests = << >>
    /\ ~VisionSkipped /\ vpc # "start" /\ KeyAvailable =>
          /\ called \in { << "gemini" >>, << "gemini", "groq" >> }
          /\ called = << "gemini", "groq" >> =>
                GeminiRaisedBefore(Len(requests) + 1)
          /\ \A i \in RequestsOf("groq") : GeminiRaisedBefore(i)
          /\ \A i \in RequestsOf("gemini") : \A j \in RequestsOf("groq") : i < j
    /\ ~VisionSkipped /\ vpc # "start" /\ ~KeyAvailable =>
          /\ called = << "groq" >>
          /\ RequestsOf("gemini") = {}

\* a run with a Gemini key in which Gemini answered one page and raised on the
\* next, after which Groq was asked about both pages and its analysis returned
C19_Witness ==
    /\ KeyAvailable
    /\ vpc = "done"
    /\ called = << "gemini", "groq" >>
    /\ Len(requests) = 4
    /\ requests[1].outcome = "ok"
    /\ requests[2].outcome = "raises"
    /\ requests[3].backend = "groq"
    /\ vision # None

\* every request to Gemini ended in an HTTP error, a timeout or an unparsable
\* response, and at least one was made
GeminiFailed ==
    /\ RequestsOf("gemini") # {}
    /\ \A i \in RequestsOf("gemini") :
          requests[i].outcome \in { "http_error", "timeout", "unparsable" }

\* C20: when _run_vision has returned and the Gemini backend failed on the key
\* pages (HTTP error, timeout or unparsable response), Groq was called after
\* Gemini and the analysis returned is the one Groq, the backend that ran
\* last, built.
C20_FallsThroughToGroq ==
    vpc = "done" /\ GeminiFailed =>
        /\ called = << "gemini", "groq" >>
        /\ vision = Some(analysis)

KeyPageNumbers == { parsed.key_pages[i].page_number : i \in 1..Len(parsed.key_pages) }
RequestsFor(page_number) == { i \in 1..Len(requests) : requests[i].page = page_number }

\* C21 as stated: every key page gets at most one request, both backends
\* counted together.
C21_Original ==
    \A n \in KeyPageNumbers : Cardinality(RequestsFor(n)) <= 1

\* C21: each backend makes at most one request per key page and none for
\* another page, so a key page gets at most two requests and a run makes at
\* most twice as many requests as there are key pages: at most
\* 2 * (MAX_VISION_PAGES + 2) for the key pages parse_pdf selects.
C21_OnePerPagePerBackend ==
    /\ \A i \in 1..Len(requests) : requests[i].page \in KeyPageNumbers
    /\ \A n \in KeyPageNumbers : \A b \in { "gemini", "groq" } :
          Cardinality(RequestsFor(n) \cap RequestsOf(b)) <= 1
    /\ Len(requests) <= 2 * Len(parsed.key_pages)
    /\ Len(parsed.key_pages) <= MAX_VISION_PAGES + 2 =>
          Len(requests) <= 2 * (MAX_VISION_PAGES + 2)

\* Gemini raised on the last key page and Groq asked about every page again:
\* each key page got two requests
C21_Witness ==
    /\ vpc = "done"
    /\ Len(parsed.key_pages) = MaxKeyPages
    /\ Len(requests) = 2 * MaxKeyPages
    /\ \A n \in KeyPageNumbers : Cardinality(RequestsFor(n)) = 2

\* positions i..j of s hold a numeric token: digits only, with no digit next
\* to it on either side
IsToken(s, i, j) ==
    /\ 1 <= i /\ i <= j /\ j <= Len(s)
    /\ \A k \in i..j : IsDigit(s[k])
    /\ i > 1 => ~IsDigit(s[i - 1])
    /\ j < Len(s) => ~IsDigit(s[j + 1])
TokensOf(s) ==
    { SubSeq(s, p[1], p[2]) :
         p \in { q \in (1..Len(s)) \X (1..Len(s)) : IsToken(s, q[1], q[2]) } }
SharesToken(a, b) == TokensOf(a) \cap TokensOf(b) # {}
Crops == parsed.all_cropped_figures
OnPage(n) == { i \in 1..Len(Crops) : Crops[i].page_number = n }
Sharing(f) == { i \in OnPage(f.page_number) : SharesToken(f.caption, Crops[i].caption) }
AttachedRight(f) ==
    /\ Sharing(f) # {} => f.png_b64 = Crops[Least(Sharing(f))].png_b64
    /\ Sharing(f) = {} /\ OnPage(f.page_number) # {} =>
          f.png_b64 = Crops[Least(OnPage(f.page_number))].png_b64
    /\ OnPage(f.page_number) = {} => f.png_b64 = NoPng
    /\ \A i \in 1..Len(Crops) :
          Crops[i].page_number # f.page_number => f.png_b64 # Crops[i].png_b64

\* C22: the image of every figure a backend has described is that of the first
\* cropped figure of the same page whose caption shares a numeric token with
\* the figure's caption, else that of the first cropped figure of the same
\* page, else empty; it is never the image of a crop of another page.
C22_ImageByPageAndToken ==
    /\ \A k \in 1..Len(analysis.figures) : AttachedRight(analysis.figures[k])
    /\ vision # None => \A k \in 1..Len(vision.v.figures) : AttachedRight(vision.v.figures[k])

\* page 2 has crops of figures 1 and 12 and page 3 has none: the figure 12
\* described on page 2 got the second crop's image, the one described on page 3
\* got none
C22_Witness ==
    /\ Len(Crops) = 2
    /\ OnPage(2) = { 1, 2 }
    /\ vision # None
    /\ \E k, l \in 1..Len(vision.v.figures) :
          /\ vision.v.figures[k].page_number = 2
          /\ Sharing(vision.v.figures[k]) = { 2 }
          /\ vision.v.figures[k].png_b64 = Crops[2].png_b64
          /\ vision.v.figures[l].page_number = 3
          /\ SharesToken(vision.v.figures[l].caption, Crops[2].caption)
          /\ vision.v.figures[l].png_b64 = NoPng

(***************************************************************************)
(* chat_completion                                                         *)
(***************************************************************************)
Requests == { i \in 1..Len(events) : events[i].kind = "request" }
Sleeps == { i \in 1..Len(events) : events[i].kind = "sleep" }
Succeeded == { i \in Requests : events[i].outcome.ok }

\* C23: chat_completion makes at most llm_max_retries requests; a successful
\* request is the last thing it does and its content ("" for a missing one) is
\* what is returned; it returns only after a successful request; and once
\* every attempt has failed, or there was none to make, it has raised
\* LLMServiceError.  It ends in no other way.
C23_RetriesThenLLMServiceError ==
    /\ Cardinality(Requests) <= settings.llm_max_retries
    /\ \A i \in Succeeded :
          /\ i = Len(events)
          /\ lpc = "returned"
          /\ llm_result.kind = "returned"
          /\ llm_result.content = IF events[i].outcome.content = None THEN << >>
                                  ELSE events[i].outcome.content.v
    /\ lpc = "returned" => Succeeded # {}
    /\ lpc \in { "loop", "returned", "raised" }
    /\ lpc = "raised" => llm_result.kind = "raised" /\ llm_result.type = "LLMServiceError"
    /\ lpc = "loop" => llm_result = None
    /\ Succeeded = {} /\ Cardinality(Requests) = settings.llm_max_retries /\ events # << >> =>
          lpc = "raised"

\* the third and last attempt succeeded after two failures
C23_Witness ==
    /\ lpc = "returned"
    /\ Cardinality(Requests) = 3
    /\ settings.llm_max_retries = 3
    /\ llm_result.content = << "t" >>

\* C28: an authentication or rate-limit error is the last thing that happens
\* in the call, which has raised LLMServiceError; any other error on an attempt
\* before the last is followed by a sleep of llm_retry_delay times the attempt
\* and on the last attempt by nothing; and there is no other sleep.
C28_SleepBetweenAttempts ==
    /\ \A i \in Requests \ Succeeded :
          LET e == events[i] IN
          IF e.outcome.error \in FatalErrors
          THEN /\ i = Len(events)
               /\ lpc = "raised"
               /\ llm_result.type = "LLMServiceError"
          ELSE IF e.attempt < settings.llm_max_retries
          THEN /\ i < Len(events)
               /\ events[i + 1].kind = "sleep"
               /\ events[i + 1].tenths = settings.llm_retry_delay * e.attempt
               /\ i + 1 < Len(events) =>
                     /\ events[i + 2].kind = "request"
                     /\ events[i + 2].attempt = e.attempt + 1
          ELSE /\ i = Len(events)
               /\ lpc = "raised"
    /\ \A i \in Sleeps :
          /\ i > 1
          /\ events[i - 1].kind = "request"
          /\ ~events[i - 1].outcome.ok
          /\ events[i - 1].outcome.error \in RetriedErrors
          /\ events[i - 1].attempt < settings.llm_max_retries

\* two errors that are retried, each followed by its sleep of 1.5 and 3
\* seconds, then a rate-limit error on the last attempt and no sleep
C28_Witness ==
    /\ lpc = "raised"
    /\ Len(events) = 5
    /\ events[2].kind = "sleep" /\ events[2].tenths = 15
    /\ events[4].kind = "sleep" /\ events[4].tenths = 30
    /\ events[5].kind = "request" /\ events[5].outcome.error = "RateLimitError"

(***************************************************************************)
(* chunk_text                                                              *)
(***************************************************************************)
IsSlice(c) ==
    /\ 0 <= c.start /\ c.start <= c.end /\ c.end <= full.len
    /\ c.text = << c.start, c.end >>

\* C24: a text of at most 5000 characters comes back as one chunk holding all
\* of it; of a longer text there are never more than MAX_CHUNKS chunks, each
\* the slice text[start:end] of at most 6000 characters.
C24_FewBoundedChunks ==
    /\ cpc = "returned" /\ full.len <= 5000 =>
          /\ Len(chunks) = 1
          /\ chunks[1].start = 0 /\ chunks[1].end = full.len
          /\ IsSlice(chunks[1])
    /\ cpc \in { "loop", "returned" } /\ full.len > 5000 =>
          /\ Len(chunks) <= 12
          /\ \A k \in 1..Len(chunks) :
                IsSlice(chunks[k]) /\ chunks[k].end - chunks[k].start <= 6000

\* a text of 12000 characters with a paragraph break at 3000 was returned as
\* 12 chunks, the first ending behind the break and the second 6000 long
C24_Witness ==
    /\ cpc = "returned"
    /\ full.len = 12000
    /\ Len(chunks) = 12
    /\ chunks[1].end = 3002
    /\ chunks[2].start = 2502 /\ chunks[2].end = 8502

\* C25: in what chunk_text returns the first chunk starts at 0, no chunk
\* starts behind the end of the chunk before it, and the last chunk ends at
\* the end of the text: every character is in a chunk.
C25_NoTextLost ==
    cpc = "returned" =>
        /\ chunks # << >>
        /\ chunks[1].start = 0
        /\ \A k \in 1..(Len(chunks) - 1) : chunks[k + 1].start <= chunks[k].end
        /\ chunks[Len(chunks)].end = full.len

\* C29: of a text longer than 5000 characters every chunk starts strictly
\* behind the start of the one before it and ends strictly behind its end, no
\* two chunks are the same slice, and no chunk follows one that ends at the
\* end of the text.
C29_StrictProgress ==
    full.len > 5000 =>
        /\ \A k \in 1..(Len(chunks) - 1) :
              /\ chunks[k].start < chunks[k + 1].start
              /\ chunks[k].end < chunks[k + 1].end
              /\ chunks[k].end # full.len
        /\ \A k, l \in 1..Len(chunks) :
              k # l => chunks[k].text # chunks[l].text

(***************************************************************************)
(* enrich_sections_with_marker                                             *)
(***************************************************************************)
\* C26: marker equations are added only if the sections hold fewer equations
\* than marker supplies; with at least as many, the sections come back
\* unchanged.
C26_OnlyWhenFewer ==
    epc = "returned" =>
        /\ enriched # Some(sections) =>
              Len(sections.equations) < Len(marker_equations)
        /\ Len(sections.equations) >= Len(marker_equations) =>
              enriched = Some(sections)

(***************************************************************************)
(* parse_pdf's exits                                                       *)
(***************************************************************************)
\* C27: a call of parse_pdf that ends in a failure ends in a
\* PDFExtractionError, whatever failed; and the PDFExtractionError that
\* parse_pdf raised itself, for no pages or too little text, is the one that
\* leaves, not a wrapper around it.
C27_OnlyPDFExtractionError ==
    Exited /\ result.kind # "ParsedPDF" =>
        /\ result.kind = "PDFExtractionError"
        /\ exc.origin \in { "no_pages", "little_text" } => ~exc.wrapped

\* the call ended in the finally clause, where safe_unlink is called: every
\* exit but the one of a failed write_temp_pdf
ThroughFinally == Exited /\ ~(result.kind = "OSError" /\ result.origin = "write_temp")

\* C30: when parse_pdf exits, on whatever path, the temporary file is gone,
\* unless safe_unlink was called and could not remove it; and what leaves is
\* the parse's own result or error.
C30_TempFileRemoved ==
    Exited =>
        /\ tmp_exists => ThroughFinally
        /\ ThroughFinally /\ exc.type = "none" => result.kind = "ParsedPDF"
        /\ exc.type # "none" => result.kind = exc.type /\ result.origin = exc.origin

====
